---- MODULE Spec2Model ----
(***************************************************************************)
(* A model of the mtg_json_tools query runtime: the version-aware file     *)
(* cache (cache.py), the lazy view registry (connection.py), the client    *)
(* facade (client.py), the tmp-then-rename downloader and the SQL builder  *)
(* (_sql.py).  Each part has its own specification over the shared         *)
(* variables; a specification leaves the variables of the other parts      *)
(* unchanged.                                                              *)
(***************************************************************************)
EXTENDS Integers, Sequences, FiniteSets, TLC

(* ------------------------------ bounds --------------------------------- *)
\* upstream publishes versions 1..MaxVersion
MaxVersion == 2
\* chunks streamed by one download
NChunks == 2
\* downloads one process starts
MaxDownloads == 2
\* helper calls made on one builder
MaxCalls == 2
\* the largest count asked of a booster sheet (sheets have up to three cards) and the
\* largest number of packs in a box
MaxPick == 4
MaxPacks == 2

(* ----------------------------- constants ------------------------------- *)
\* Python's None for a version string, and "file absent" for a file version
None == 0

\* logical parquet views (a subset of config.PARQUET_FILES)
ParquetViews == {"cards", "sets", "card_legalities"}
\* logical JSON files (a subset of config.JSON_FILES); the first is gzipped
JsonNames == {"all_prices_today", "meta"}
GzNames == {"all_prices_today"}
Files == ParquetViews \cup JsonNames

\* the eleven lazy domain-query handles of MtgJsonTools.__init__
Handles == {"cards", "sets", "prices", "decks", "sealed", "skus",
            "identifiers", "legalities", "tokens", "enums", "booster"}

\* read methods of PriceQuery
PriceMethods == {"get", "today", "history", "price_trend", "cheapest_printing",
                 "cheapest_printings", "most_expensive_printings"}

\* what the bytes of a cached JSON file are: a document with content, a document
\* with no entries, or one of the ways a file can be damaged
JsonKinds == {"valid", "empty", "bad_magic", "truncated", "bad_deflate", "bad_json",
              "bad_utf8", "io_error"}
ValidKinds == {"valid", "empty"}

VARIABLES
    \* ---- the world outside the process
    upstream,      \* version currently published in Meta.json on the CDN
    fileVer,       \* cache dir: file -> upstream version its bytes came from (None: absent)
    jsonKind,      \* cache dir: JSON file -> what its bytes are
    versionTxt,    \* cache dir: content of version.txt (None: no such file)
    \* ---- one client instance (MtgJsonTools + CacheManager + Connection)
    offline,       \* CacheManager.offline
    remoteMemo,    \* CacheManager._remote_version
    httpOpen,      \* CacheManager._client is not None
    registered,    \* Connection._registered_views
    dbTables,      \* views and tables that exist in the DuckDB database
    closed,        \* the DuckDB connection has been closed
    handles,       \* the lazy handles of MtgJsonTools that are not None
    pricesLoaded,  \* PriceQuery._loaded of the current prices handle
    \* ---- observation of the last call
    lastOp,        \* the call made last, as a record
    lastRes,       \* its outcome, as a record
    pre,           \* registry and handles as they were when the last refresh() was called
    refreshedTo,   \* view -> version a True refresh() saw upstream while the view was registered
    badCache,      \* JSON names whose last load_json on this cache found the file corrupt
    probe,         \* use of the Meta.json endpoint by this cache instance (direct cache calls)
    \* ---- the downloader (_download_file), run by one or two processes
    active,        \* processes taking part
    pc,            \* process -> position in _download_file
    inode,         \* inode number -> sequence of chunks (the file's bytes)
    tmpPath,       \* directory entry '<dest>.tmp': inode number or None
    destPath,      \* directory entry dest: inode number or None
    fd,            \* process -> inode its open file object writes to
    off,           \* process -> number of chunks it has written so far (file position)
    started,       \* process -> downloads started
    destBefore,    \* process -> bytes at dest when its current call began (<<>>: absent)
    lastRename,    \* process whose rename succeeded last (None: nobody)
    \* ---- the SQL builder, run twice on the same calls with different values
    q1, q2,        \* SQLBuilder instances
    calls,         \* helper calls made so far
    dsql1, dsql2,  \* SQL text a domain-query method handed to the engine
    \* ---- functions of their arguments alone (ingestion, price queries)
    input,         \* the argument the function is applied to
    output,        \* what it returned or wrote
    stage          \* "idle", "ready" (input chosen) or the name of the function applied

worldVars == <<upstream, fileVer, jsonKind, versionTxt>>
clientVars == <<offline, remoteMemo, httpOpen, registered, dbTables, closed, handles,
               pricesLoaded>>
obsVars == <<lastOp, lastRes, pre, refreshedTo, badCache, probe>>
dlVars == <<active, pc, inode, tmpPath, destPath, fd, off, started, destBefore, lastRename>>
sqlVars == <<q1, q2, calls, dsql1, dsql2>>
pureVars == <<input, output, stage>>
vars == <<worldVars, clientVars, obsVars, dlVars, sqlVars, pureVars>>


(* ======================================================================= *)
(* Cache (cache.py).  The operators below take the mutable state of one    *)
(* client as a record s and return the state after the call together with  *)
(* the call's result, so that a handler can chain them as the code does.   *)
(* n is what the network does during the handler: n.meta - the Meta.json   *)
(* request succeeds; n.dl - a file download succeeds; n.kind - what bytes  *)
(* a downloaded JSON file has.                                             *)
(* ======================================================================= *)
\* the Meta.json endpoint has not been used: fetched - it was contacted; refetched -
\* it was contacted again; first - <<value>> of the first remote_version() return;
\* same - every remote_version() return so far equals the first
NoProbe == [fetched |-> FALSE, refetched |-> FALSE, first |-> <<>>, same |-> TRUE]

\* req: the handler has issued a network request
Cur == [fv |-> fileVer, jk |-> jsonKind, vt |-> versionTxt, memo |-> remoteMemo,
        http |-> httpOpen, reg |-> registered, db |-> dbTables, loaded |-> pricesLoaded,
        fetched |-> probe.fetched, refetched |-> probe.refetched,
        first |-> probe.first, same |-> probe.same, req |-> FALSE]

\* self.client.get(META_URL): the lazy HTTP client exists and the endpoint is contacted
Contact(s) == [s EXCEPT !.http = TRUE, !.req = TRUE,
                        !.refetched = @ \/ s.fetched, !.fetched = TRUE]
\* remote_version() returns v
Ret(s, v) == [s |-> [s EXCEPT !.first = IF @ = <<>> THEN <<v>> ELSE @,
                              !.same = @ /\ s.first \in {<<>>, <<v>>}],
              ret |-> v]

NetOutcomes == [meta : BOOLEAN, dl : BOOLEAN, kind : {"valid"}]
NetOutcomesAnyKind == [meta : BOOLEAN, dl : BOOLEAN, kind : JsonKinds]

\* CacheManager.remote_version: memoized, None when offline or unreachable
remote_version(s, n) ==
    IF s.memo # None THEN Ret(s, s.memo)
    ELSE IF offline THEN Ret(s, None)
    ELSE IF n.meta
         THEN Ret([Contact(s) EXCEPT !.memo = upstream], upstream)
         ELSE Ret(Contact(s), None)

\* is_stale when the remote version is unknown: "Can't check, assume fresh"
StaleWhenUnknown_True == TRUE
StaleWhenUnknown == FALSE

\* CacheManager.is_stale
is_stale(s, n) ==
    LET Compare(r) == IF r.ret = None THEN [s |-> r.s, ret |-> StaleWhenUnknown]
                      ELSE [s |-> r.s, ret |-> (s.vt # r.ret)]
    IN  IF s.vt = None THEN [s |-> s, ret |-> TRUE]
        ELSE Compare(remote_version(s, n))

\* CacheManager._download_file as the cache sees it: on success the target holds
\* the bytes upstream serves now, on failure the target is as it was
download_file(s, f, n) ==
    IF n.dl
    THEN [s |-> [s EXCEPT !.fv[f] = upstream, !.http = TRUE, !.req = TRUE,
                          !.jk = IF f \in JsonNames THEN [@ EXCEPT ![f] = n.kind] ELSE @],
          exc |-> "none"]
    ELSE [s |-> [s EXCEPT !.http = TRUE, !.req = TRUE], exc |-> "HTTPError"]

\* CacheManager._save_version after a download: only a known version is written
save_version_after_download(s, n) ==
    LET Save(r) == IF r.ret # None THEN [r.s EXCEPT !.vt = r.ret] ELSE r.s
    IN  Save(remote_version(s, n))

\* what ensure_parquet / ensure_json raise when offline and the file is missing
NotCachedError_Nothing == "none"
NotCachedError == "FileNotFoundError"

\* CacheManager.ensure_parquet; is_stale is only evaluated when the file exists
ensure_parquet(s, f, n) ==
    LET exists == s.fv[f] # None
        Downloaded(d) ==
            IF d.exc # "none" THEN [s |-> d.s, exc |-> d.exc, dl |-> TRUE]
            ELSE [s |-> save_version_after_download(d.s, n), exc |-> "none", dl |-> TRUE]
        Checked(st) ==
            IF exists /\ ~st.ret THEN [s |-> st.s, exc |-> "none", dl |-> FALSE]
            ELSE IF offline
                 THEN IF exists THEN [s |-> st.s, exc |-> "none", dl |-> FALSE]
                      ELSE [s |-> st.s, exc |-> NotCachedError, dl |-> FALSE]
            ELSE Downloaded(download_file(st.s, f, n))
    IN  Checked(IF exists THEN is_stale(s, n) ELSE [s |-> s, ret |-> TRUE])

\* CacheManager.ensure_json: the same steps for a JSON file
ensure_json(s, f, n) ==
    LET exists == s.fv[f] # None
        Downloaded(d) ==
            IF d.exc # "none" THEN [s |-> d.s, exc |-> d.exc, dl |-> TRUE]
            ELSE [s |-> save_version_after_download(d.s, n), exc |-> "none", dl |-> TRUE]
        Checked(st) ==
            IF exists /\ ~st.ret THEN [s |-> st.s, exc |-> "none", dl |-> FALSE]
            ELSE IF offline
                 THEN IF exists THEN [s |-> st.s, exc |-> "none", dl |-> FALSE]
                      ELSE [s |-> st.s, exc |-> NotCachedError, dl |-> FALSE]
            ELSE Downloaded(download_file(st.s, f, n))
    IN  Checked(IF exists THEN is_stale(s, n) ELSE [s |-> s, ret |-> TRUE])

(* ======================================================================= *)
(* Engine (connection.py)                                                  *)
(* ======================================================================= *)
\* a lookup that ignores the registry and registers the view again
ensure_view_Again(s, v, n) ==
    LET Register(e) ==
            IF e.exc # "none" THEN [s |-> e.s, exc |-> e.exc]
            ELSE IF closed THEN [s |-> e.s, exc |-> "ConnectionException"]
            ELSE [s |-> [e.s EXCEPT !.reg = @ \cup {v}, !.db = @ \cup {v}], exc |-> "none"]
    IN  Register(ensure_parquet(s, v, n))

\* Connection._ensure_view (and _register_legalities_view for card_legalities):
\* a registered name returns at once; otherwise the cache is asked for the file
\* and the view SQL runs on the DuckDB connection, which raises once closed
ensure_view(s, v, n) ==
    LET Register(e) ==
            IF e.exc # "none" THEN [s |-> e.s, exc |-> e.exc]
            ELSE IF closed THEN [s |-> e.s, exc |-> "ConnectionException"]
            ELSE [s |-> [e.s EXCEPT !.reg = @ \cup {v}, !.db = @ \cup {v}], exc |-> "none"]
    IN  IF v \in s.reg THEN [s |-> s, exc |-> "none"]
        ELSE Register(ensure_parquet(s, v, n))

\* Connection.ensure_views: in order, stopping at the first exception
RECURSIVE ensure_views(_, _, _)
ensure_views(s, vs, n) ==
    IF vs = <<>> THEN [s |-> s, exc |-> "none"]
    ELSE LET Rest(r) == IF r.exc # "none" THEN r ELSE ensure_views(r.s, Tail(vs), n)
         IN  Rest(ensure_view(s, Head(vs), n))

\* Connection.execute / execute_df / execute_models of a statement that reads the
\* relations rels: DuckDB raises on a closed connection and on an unknown relation
execute(s, rels) ==
    IF closed THEN "ConnectionException"
    ELSE IF ~(rels \subseteq s.db) THEN "CatalogException"
    ELSE "none"

\* Connection.register_table_from_ndjson
register_table_from_ndjson(s, t) ==
    IF closed THEN [s |-> s, exc |-> "ConnectionException"]
    ELSE [s |-> [s EXCEPT !.reg = @ \cup {t}, !.db = @ \cup {t}], exc |-> "none"]


(* ======================================================================= *)
(* What a call leaves behind for the properties to look at                 *)
(* ======================================================================= *)
\* req - the call issued a network request; val - the version remote_version() returned
NoRes == [exc |-> "none", ret |-> "-", stale |-> FALSE, dl |-> FALSE,
          parse |-> "-", retry |-> FALSE, got |-> "-", req |-> FALSE, val |-> None]
\* for refresh() and the direct cache calls: memo, vt, up - the memoized remote
\* version, version.txt and the upstream version when the call began; exists - the
\* file asked for was in the cache; net - the Meta.json endpoint was reachable
NoPre == [reg |-> {}, handles |-> {}, memo |-> None, vt |-> None, up |-> None,
          exists |-> FALSE, net |-> FALSE]
Op(name, arg) == [op |-> name, arg |-> arg]
Raised(e) == [NoRes EXCEPT !.exc = e]
Returned(r) == [NoRes EXCEPT !.ret = r]
Outcome(e, r) == IF e # "none" THEN Raised(e) ELSE Returned(r)

\* the state record written back to the variables
Commit(s) ==
    /\ fileVer' = s.fv
    /\ jsonKind' = s.jk
    /\ versionTxt' = s.vt
    /\ remoteMemo' = s.memo
    /\ httpOpen' = s.http
    /\ registered' = s.reg
    /\ dbTables' = s.db
    /\ pricesLoaded' = s.loaded

\* an ordinary call: it is recorded, and only refresh() keeps a snapshot
Observe(op, res) ==
    /\ lastOp' = op
    /\ lastRes' = res
    /\ pre' = NoPre
    /\ probe' = probe

\* reading the property sdk.<h> creates the handle when it is None
WithHandle(h) == handles' = handles \cup {h}

(* ======================================================================= *)
(* Direct calls on one CacheManager (cache.py)                             *)
(* ======================================================================= *)
ProbeOf(s) == [fetched |-> s.fetched, refetched |-> s.refetched,
               first |-> s.first, same |-> s.same]

\* what the cache looked like when a call on file f began
CachePre(exists, n) ==
    [NoPre EXCEPT !.memo = remoteMemo, !.vt = versionTxt, !.up = upstream,
                  !.exists = exists, !.net = n.meta]

\* the variables a call on the cache never touches
CacheFrame == UNCHANGED <<upstream, offline, closed, handles, refreshedTo, badCache,
                          dlVars, sqlVars, pureVars>>

\* CacheManager.remote_version()
remote_version_call(n) ==
    LET r == remote_version(Cur, n) IN
    /\ Commit(r.s)
    /\ probe' = ProbeOf(r.s)
    /\ lastOp' = Op("remote_version", "-")
    /\ lastRes' = [NoRes EXCEPT !.ret = "version", !.val = r.ret, !.req = r.s.req]
    /\ pre' = CachePre(FALSE, n)
    /\ CacheFrame

\* CacheManager.is_stale()
is_stale_call(n) ==
    LET r == is_stale(Cur, n) IN
    /\ Commit(r.s)
    /\ probe' = ProbeOf(r.s)
    /\ lastOp' = Op("is_stale", "-")
    /\ lastRes' = [NoRes EXCEPT !.ret = IF r.ret THEN "True" ELSE "False",
                                !.stale = r.ret, !.req = r.s.req]
    /\ pre' = CachePre(FALSE, n)
    /\ CacheFrame

\* CacheManager.ensure_parquet(view_name)
ensure_parquet_call(f, n) ==
    LET r == ensure_parquet(Cur, f, n) IN
    /\ Commit(r.s)
    /\ probe' = ProbeOf(r.s)
    /\ lastOp' = Op("ensure_parquet", f)
    /\ lastRes' = [Outcome(r.exc, "path") EXCEPT !.dl = r.dl, !.req = r.s.req]
    /\ pre' = CachePre(fileVer[f] # None, n)
    /\ CacheFrame

\* CacheManager.ensure_json(name)
ensure_json_call(f, n) ==
    LET r == ensure_json(Cur, f, n) IN
    /\ Commit(r.s)
    /\ probe' = ProbeOf(r.s)
    /\ lastOp' = Op("ensure_json", f)
    /\ lastRes' = [Outcome(r.exc, "path") EXCEPT !.dl = r.dl, !.req = r.s.req]
    /\ pre' = CachePre(fileVer[f] # None, n)
    /\ CacheFrame


(* ======================================================================= *)
(* Client facade (client.py) and domain queries (queries/*.py)             *)
(* ======================================================================= *)
\* the CDN publishes a new release
publish ==
    /\ upstream < MaxVersion
    /\ upstream' = upstream + 1
    /\ UNCHANGED <<fileVer, jsonKind, versionTxt, clientVars, obsVars, dlVars, sqlVars, pureVars>>

\* Connection.ensure_views(v)
ensure_views_call(v, n) ==
    LET r == ensure_view(Cur, v, n) IN
    /\ Commit(r.s)
    /\ Observe(Op("ensure_views", v), Outcome(r.exc, "None"))
    /\ UNCHANGED <<upstream, offline, closed, handles, refreshedTo, badCache, dlVars, sqlVars, pureVars>>

\* MtgJsonTools.sql(query): the query names no relation here (SELECT 1)
sql_call ==
    /\ Observe(Op("sql", "-"), Outcome(execute(Cur, {}), "rows"))
    /\ UNCHANGED <<worldVars, clientVars, refreshedTo, badCache, dlVars, sqlVars, pureVars>>

\* sdk.cards.get_by_uuids(uuids, as_dict / as_dataframe): shape is the result shape
cards_get_by_uuids(empty, shape, n) ==
    LET r == ensure_views(Cur, <<"cards">>, n)
        e == IF r.exc # "none" THEN r.exc ELSE execute(r.s, {"cards"})
    IN  /\ WithHandle("cards")
        /\ IF empty
           THEN /\ Commit(Cur)
                /\ Observe(Op("cards.get_by_uuids", "empty"),
                           IF shape = "df" THEN Outcome(execute(Cur, {"cards"}), "[]")
                           ELSE Returned("[]"))
           ELSE /\ Commit(r.s)
                /\ Observe(Op("cards.get_by_uuids", "some"), Outcome(e, "rows"))
        /\ UNCHANGED <<upstream, offline, closed, refreshedTo, badCache, dlVars, sqlVars, pureVars>>

\* sdk.legalities.banned_in(format) and its siblings: LegalityQuery._cards_by_status
cards_by_status(n) ==
    LET r == ensure_views(Cur, <<"card_legalities", "cards">>, n)
        e == IF r.exc # "none" THEN r.exc ELSE execute(r.s, {"cards", "card_legalities"})
    IN  /\ WithHandle("legalities")
        /\ Commit(r.s)
        /\ Observe(Op("legalities.banned_in", "-"), Outcome(e, "rows"))
        /\ UNCHANGED <<upstream, offline, closed, refreshedTo, badCache, dlVars, sqlVars, pureVars>>


\* what parsing a JSON file raises: gzip.open + json.load for a .gz name,
\* read_text + json.loads otherwise.  A gzip member whose header is intact but
\* whose deflate body is damaged makes the decompressor raise zlib.error.
Raises(name, kind) ==
    IF kind \in ValidKinds THEN "none"
    ELSE IF kind = "io_error" THEN "OSError"
    ELSE IF kind = "bad_utf8" THEN "UnicodeDecodeError"
    ELSE IF name \in GzNames
         THEN CASE kind = "bad_magic" -> "BadGzipFile"
                [] kind = "truncated" -> "EOFError"
                [] kind = "bad_deflate" -> "zlib.error"
                [] OTHER -> "JSONDecodeError"
         ELSE "JSONDecodeError"

\* the except clause of CacheManager.load_json
CaughtByLoadJson == {"BadGzipFile", "EOFError", "JSONDecodeError", "OSError",
                     "UnicodeDecodeError"}

\* CacheManager.load_json on the state s
load_json(s, name, n) ==
    LET Parse(e, x) ==
            IF e.exc # "none" THEN [s |-> e.s, exc |-> e.exc, parse |-> "-", dl |-> e.dl]
            ELSE IF x = "none" THEN [s |-> e.s, exc |-> "none", parse |-> "none", dl |-> e.dl]
            ELSE IF x \in CaughtByLoadJson
                 THEN [s |-> [e.s EXCEPT !.fv[name] = None, !.jk[name] = "valid"],
                       exc |-> "FileNotFoundError", parse |-> x, dl |-> e.dl]
            ELSE [s |-> e.s, exc |-> x, parse |-> x, dl |-> e.dl]
        Open(e) == Parse(e, Raises(name, e.s.jk[name]))
    IN  Open(ensure_json(s, name, n))

\* a caller of load_json (sdk.meta, sdk.enums, sdk.decks): one call on the cache
load_json_call(name, n) ==
    LET r == load_json(Cur, name, n)
        got == IF r.dl /\ n.dl THEN n.kind ELSE "-"
    IN  /\ Commit(r.s)
        /\ Observe(Op("load_json", name),
                   [NoRes EXCEPT !.exc = r.exc,
                                 !.ret = IF r.exc = "none" THEN "dict" ELSE "-",
                                 !.dl = r.dl, !.parse = r.parse,
                                 !.retry = (name \in badCache), !.got = got])
        /\ badCache' = IF r.parse \notin {"-", "none"} THEN badCache \cup {name}
                       ELSE badCache \ {name}
        /\ UNCHANGED <<upstream, offline, closed, handles, refreshedTo, dlVars, sqlVars, pureVars>>

\* PriceQuery._ensure followed by _load_prices_to_duckdb; fresh is TRUE when the
\* PriceQuery object was created by this access (its _loaded starts False)
price_ensure(s, fresh, n) ==
    LET Registered(t) == IF t.exc # "none" THEN [s |-> t.s, exc |-> t.exc]
                         ELSE [s |-> [t.s EXCEPT !.loaded = TRUE], exc |-> "none"]
        Load(e, x) ==
            IF e.exc = "FileNotFoundError"
            THEN [s |-> [e.s EXCEPT !.loaded = TRUE], exc |-> "none"]
            ELSE IF e.exc # "none" THEN [s |-> e.s, exc |-> e.exc]
            ELSE IF x # "none" THEN [s |-> e.s, exc |-> x]
            ELSE IF e.s.jk["all_prices_today"] = "empty"
                 THEN [s |-> [e.s EXCEPT !.loaded = TRUE], exc |-> "none"]
            ELSE Registered(register_table_from_ndjson(e.s, "prices_today"))
        Open(e) == Load(e, Raises("all_prices_today", e.s.jk["all_prices_today"]))
        Ensure(s0) ==
            IF s0.loaded THEN [s |-> s0, exc |-> "none"]
            ELSE IF "prices_today" \in s0.reg
                 THEN [s |-> [s0 EXCEPT !.loaded = TRUE], exc |-> "none"]
            ELSE Open(ensure_json(s0, "all_prices_today", n))
    IN  Ensure(IF fresh THEN [s EXCEPT !.loaded = FALSE] ELSE s)

\* the value a PriceQuery method returns when prices_today is not registered
EmptyValue(m) == IF m \in {"get", "price_trend", "cheapest_printing"} THEN "None" ELSE "[]"

\* sdk.prices.<m>(...): PriceQuery.get / today / history / price_trend /
\* cheapest_printing / cheapest_printings / most_expensive_printings
price_method(m, n) ==
    LET p == price_ensure(Cur, "prices" \notin handles, n)
        joins == m \in {"cheapest_printing", "cheapest_printings", "most_expensive_printings"}
        c == IF p.exc = "none" /\ joins THEN ensure_views(p.s, <<"cards">>, n) ELSE p
        guarded == m # "cheapest_printing"
        rels == IF joins THEN {"cards", "prices_today"} ELSE {"prices_today"}
        res == IF c.exc # "none" THEN Raised(c.exc)
               ELSE IF guarded /\ "prices_today" \notin c.s.reg THEN Returned(EmptyValue(m))
               ELSE Outcome(execute(c.s, rels), "rows")
    IN  /\ WithHandle("prices")
        /\ Commit(c.s)
        /\ Observe(Op("prices", m), res)
        /\ UNCHANGED <<upstream, offline, closed, refreshedTo, badCache, dlVars, sqlVars, pureVars>>

\* BoosterSimulator._get_booster_config: any exception of the query is swallowed
get_booster_config(s, n) ==
    LET Query(r) ==
            IF r.exc # "none" THEN [s |-> r.s, exc |-> r.exc, ret |-> "-"]
            ELSE IF execute(r.s, {"sets"}) # "none"
                 THEN [s |-> r.s, exc |-> "none", ret |-> "None"]
            ELSE [s |-> r.s, exc |-> "none", ret |-> "config"]
    IN  Query(ensure_views(s, <<"sets", "cards">>, n))

\* sdk.booster.available_types(set) and sdk.booster.sheet_contents(set, type, sheet)
booster_method(m, n) ==
    LET g == get_booster_config(Cur, n)
        ret == IF g.ret = "None" THEN (IF m = "available_types" THEN "[]" ELSE "None")
               ELSE "rows"
    IN  /\ m \in {"available_types", "sheet_contents"}
        /\ WithHandle("booster")
        /\ Commit(g.s)
        /\ Observe(Op("booster", m), Outcome(g.exc, ret))
        /\ UNCHANGED <<upstream, offline, closed, refreshedTo, badCache, dlVars, sqlVars, pureVars>>

\* reading one of the lazy properties sdk.cards ... sdk.booster
touch(h) ==
    /\ WithHandle(h)
    /\ pricesLoaded' = IF h = "prices" /\ h \notin handles THEN FALSE ELSE pricesLoaded
    /\ Observe(Op("property", "-"), Returned("handle"))
    /\ UNCHANGED <<worldVars, offline, remoteMemo, httpOpen, registered, dbTables, closed,
                   refreshedTo, badCache, dlVars, sqlVars, pureVars>>

\* a refresh that forgets the booster handle
ResetByRefresh_NoBooster == Handles \ {"booster"}

\* the handles MtgJsonTools.refresh sets to None
ResetByRefresh == Handles

\* MtgJsonTools.refresh
refresh(n) ==
    LET st == is_stale(Cur, n)
        s1 == IF st.ret THEN [st.s EXCEPT !.reg = {}, !.loaded = FALSE] ELSE st.s
        byVersion == st.ret /\ versionTxt # None
    IN  /\ Commit(s1)
        /\ handles' = IF st.ret THEN handles \ ResetByRefresh ELSE handles
        /\ lastOp' = Op("refresh", "-")
        /\ lastRes' = [NoRes EXCEPT !.ret = IF st.ret THEN "True" ELSE "False",
                                    !.stale = st.ret]
        /\ pre' = [NoPre EXCEPT !.reg = registered, !.handles = handles,
                                !.memo = remoteMemo, !.vt = versionTxt,
                                !.up = upstream, !.net = n.meta]
        /\ probe' = probe
        /\ refreshedTo' = [v \in ParquetViews |->
                             IF byVersion /\ v \in registered THEN st.s.memo
                             ELSE refreshedTo[v]]
        /\ UNCHANGED <<upstream, offline, closed, badCache, dlVars, sqlVars, pureVars>>

\* a mutant export that copies every relation of the engine
ExportedNames_Engine == dbTables
\* sorted(self._conn._registered_views): the names export_db copies
ExportedNames == registered

\* MtgJsonTools.export_db(path): a file at path is unlinked, the file is attached as
\* export_db, every registered name is copied with CREATE TABLE ... AS SELECT *, and
\* the file is detached.  output is the file at path: the rows of each of its tables
\* (told by the version of the parquet file the view reads) and whether the engine
\* still has it attached.
export_db ==
    LET exc == IF closed THEN "ConnectionException"
               ELSE IF ~(ExportedNames \subseteq dbTables) THEN "CatalogException"
               ELSE "none"
    IN  /\ output' = IF closed THEN <<>>
                     ELSE [tables |-> [v \in ExportedNames \cap dbTables |-> fileVer[v]],
                           attached |-> FALSE]
        /\ stage' = IF closed THEN "idle" ELSE "exported"
        /\ lastOp' = Op("export_db", IF stage = "exported" THEN "again" ELSE "first")
        /\ lastRes' = Outcome(exc, "path")
        /\ pre' = [NoPre EXCEPT !.reg = registered]
        /\ probe' = probe
        /\ UNCHANGED <<worldVars, clientVars, refreshedTo, badCache, dlVars, sqlVars, input>>

(* ----------------------------------------------------------------------- *)
(* AsyncMtgJsonTools (async_client.py): run() hands the call to a thread   *)
(* of the pool; the threads share the one MtgJsonTools and its Connection. *)
(* output is each worker thread's position in the call it runs, input the  *)
(* view that call reads ("-": raw SQL that names no view).                 *)
(* ----------------------------------------------------------------------- *)
\* threads of ThreadPoolExecutor(max_workers=4) that are followed
MaxWorkers == 2
Workers == 1..MaxWorkers
AsyncViews == {"cards", "sets"}

AsyncFrame == UNCHANGED <<upstream, jsonKind, versionTxt, offline, remoteMemo, httpOpen,
                          closed, handles, pricesLoaded, obsVars, dlVars, sqlVars, stage>>

\* AsyncMtgJsonTools.run(fn): loop.run_in_executor gives fn to an idle thread,
\* which enters Connection._ensure_view of the view fn reads
run(w, v) ==
    /\ output[w] = "idle"
    /\ output' = [output EXCEPT ![w] = "check"]
    /\ input' = [input EXCEPT ![w] = v]
    /\ UNCHANGED <<fileVer, registered, dbTables>>
    /\ AsyncFrame

\* AsyncMtgJsonTools.sql(query): run(self._sdk.sql, query), which executes at once
sql(w) ==
    /\ output[w] = "idle"
    /\ output' = [output EXCEPT ![w] = "execute"]
    /\ input' = [input EXCEPT ![w] = "-"]
    /\ UNCHANGED <<fileVer, registered, dbTables>>
    /\ AsyncFrame

\* _ensure_view: if view_name in self._registered_views: return
ensure_view_check(w) ==
    /\ output[w] = "check"
    /\ output' = [output EXCEPT ![w] = IF input[w] \in registered THEN "execute"
                                       ELSE "download"]
    /\ UNCHANGED <<input, fileVer, registered, dbTables>>
    /\ AsyncFrame

\* _ensure_view: path = self.cache.ensure_parquet(view_name) returns, the file
\* fetched if it was not in the cache
ensure_view_download(w) ==
    /\ output[w] = "download"
    /\ fileVer' = [fileVer EXCEPT ![input[w]] = IF @ = None THEN upstream ELSE @]
    /\ output' = [output EXCEPT ![w] = "register"]
    /\ UNCHANGED <<input, registered, dbTables>>
    /\ AsyncFrame

\* _ensure_view: CREATE OR REPLACE VIEW ...; self._registered_views.add(view_name)
ensure_view_register(w) ==
    /\ output[w] = "register"
    /\ registered' = registered \cup {input[w]}
    /\ dbTables' = dbTables \cup {input[w]}
    /\ output' = [output EXCEPT ![w] = "execute"]
    /\ UNCHANGED <<input, fileVer>>
    /\ AsyncFrame

\* Connection.execute: result = self._conn.execute(sql) is issued on the connection
execute_begin(w) ==
    /\ output[w] = "execute"
    /\ output' = [output EXCEPT ![w] = "fetch"]
    /\ UNCHANGED <<input, fileVer, registered, dbTables>>
    /\ AsyncFrame

\* Connection.execute: rows = result.fetchall(); the call returns and the thread is free
execute_fetchall(w) ==
    /\ output[w] = "fetch"
    /\ output' = [output EXCEPT ![w] = "idle"]
    /\ input' = [input EXCEPT ![w] = "-"]
    /\ UNCHANGED <<fileVer, registered, dbTables>>
    /\ AsyncFrame

\* a mutant guard that takes prices_today for registered in every state
PricesRegistered_Always(reg) == TRUE
\* get_financial_summary: "prices_today" in self._conn._registered_views
PricesRegistered(reg) == "prices_today" \in reg

\* sdk.sets.get_financial_summary(code): ensure_views("cards"), then None unless
\* prices_today is registered, then the aggregate over cards and prices_today
sets_get_financial_summary(n) ==
    LET Answer(c) ==
            IF c.exc # "none" THEN Raised(c.exc)
            ELSE IF ~PricesRegistered(c.s.reg) THEN Returned("None")
            ELSE Outcome(execute(c.s, {"cards", "prices_today"}), "rows")
        Finish(c) ==
            /\ Commit(c.s)
            /\ lastRes' = Answer(c)
    IN  /\ WithHandle("sets")
        /\ Finish(ensure_views(Cur, <<"cards">>, n))
        /\ lastOp' = Op("sets", "get_financial_summary")
        /\ pre' = [NoPre EXCEPT !.reg = registered,
                                !.exists = "prices_today" \in dbTables]
        /\ probe' = probe
        /\ UNCHANGED <<upstream, offline, closed, refreshedTo, badCache, dlVars, sqlVars, pureVars>>

\* a close() that refuses to run on a closed client
close_Once ==
    /\ closed' = TRUE
    /\ httpOpen' = IF closed THEN httpOpen ELSE FALSE
    /\ Observe(Op("close", IF closed THEN "again" ELSE "first"),
               IF closed THEN Raised("ConnectionException") ELSE Returned("None"))
    /\ UNCHANGED <<worldVars, offline, remoteMemo, registered, dbTables, handles,
                   pricesLoaded, refreshedTo, badCache, dlVars, sqlVars, pureVars>>

\* MtgJsonTools.close: Connection.close (DuckDB's close() of a closed connection does
\* nothing), then CacheManager.close (closes the HTTP client if there is one); the
\* call is recorded as the first close of this client or as a later one
close ==
    /\ closed' = TRUE
    /\ httpOpen' = FALSE
    /\ Observe(Op("close", IF closed THEN "again" ELSE "first"), Returned("None"))
    /\ UNCHANGED <<worldVars, offline, remoteMemo, registered, dbTables, handles,
                   pricesLoaded, refreshedTo, badCache, dlVars, sqlVars, pureVars>>

\* MtgJsonTools.__init__ on the same cache directory (the process is restarted)
new_client(o) ==
    /\ offline' = o
    /\ remoteMemo' = None
    /\ httpOpen' = FALSE
    /\ registered' = {}
    /\ dbTables' = {}
    /\ closed' = FALSE
    /\ handles' = {}
    /\ pricesLoaded' = FALSE
    /\ lastOp' = Op("init", "-")
    /\ lastRes' = NoRes
    /\ pre' = NoPre
    /\ probe' = NoProbe
    /\ refreshedTo' = [v \in ParquetViews |-> None]
    /\ badCache' = {}
    /\ UNCHANGED <<worldVars, dlVars, sqlVars, pureVars>>


(* ======================================================================= *)
(* CacheManager._download_file, step by step, on a file system with inodes *)
(* ======================================================================= *)
Procs == {1, 2}

\* one chunk of bytes: who wrote it and which chunk of the response it is
Chunk(p, i) == [by |-> p, i |-> i]
\* a gap left by writing past the end of a truncated file (reads as zeros)
Hole == [by |-> -1, i |-> 0]
\* the whole response as process p receives it
Complete(p) == [i \in 1..NChunks |-> Chunk(p, i)]
\* a complete file left by an earlier, finished download
OldContent == [i \in 1..NChunks |-> Chunk(0, i)]
\* a partial '.tmp' left by a process that was killed
LeftoverTmp == <<Chunk(0, 1)>>

\* the file at dest, as a reader sees it
DestFile ==
    IF destPath = None THEN [exists |-> FALSE, bytes |-> <<>>]
    ELSE [exists |-> TRUE, bytes |-> inode[destPath]]

\* f.write(chunk) at position pos (counted in chunks) of a file holding bytes
WriteAt(bytes, pos, c) ==
    LET n == IF Len(bytes) > pos THEN Len(bytes) ELSE pos + 1 IN
    [i \in 1..n |-> IF i = pos + 1 THEN c
                    ELSE IF i <= Len(bytes) THEN bytes[i] ELSE Hole]

\* the client and the builder are not involved in a download step
RestIdle == UNCHANGED <<worldVars, clientVars, obsVars, sqlVars, pureVars>>

\* the call begins: url and tmp_dest are computed, dest.parent is created
dl_start(p) ==
    /\ p \in active
    /\ RestIdle
    /\ pc[p] \in {"idle", "done", "failed"}
    /\ started[p] < MaxDownloads
    /\ started' = [started EXCEPT ![p] = @ + 1]
    /\ destBefore' = [destBefore EXCEPT ![p] = DestFile]
    /\ pc' = [pc EXCEPT ![p] = "request"]
    /\ UNCHANGED <<active, inode, tmpPath, destPath, fd, off, lastRename>>

\* client.stream("GET", url) and resp.raise_for_status()
dl_request(p, ok) ==
    /\ p \in active
    /\ RestIdle
    /\ pc[p] = "request"
    /\ pc' = [pc EXCEPT ![p] = IF ok THEN "open" ELSE "cleanup"]
    /\ UNCHANGED <<active, inode, tmpPath, destPath, fd, off, started, destBefore, lastRename>>

\* open(tmp_dest, "wb"): creates the file, or truncates the one that is there
dl_open(p) ==
    /\ p \in active
    /\ RestIdle
    /\ pc[p] = "open"
    /\ IF tmpPath = None
       THEN /\ inode' = Append(inode, <<>>)
            /\ tmpPath' = Len(inode) + 1
       ELSE /\ inode' = [inode EXCEPT ![tmpPath] = <<>>]
            /\ tmpPath' = tmpPath
    /\ fd' = [fd EXCEPT ![p] = tmpPath']
    /\ off' = [off EXCEPT ![p] = 0]
    /\ pc' = [pc EXCEPT ![p] = "write"]
    /\ UNCHANGED <<active, destPath, started, destBefore, lastRename>>

\* one turn of the chunk loop: f.write(chunk), then the progress callback, which
\* may raise; after the last chunk the file is closed
dl_write(p, cb_ok) ==
    /\ p \in active
    /\ RestIdle
    /\ pc[p] = "write"
    /\ off[p] < NChunks
    /\ inode' = [inode EXCEPT ![fd[p]] = WriteAt(@, off[p], Chunk(p, off[p] + 1))]
    /\ off' = [off EXCEPT ![p] = @ + 1]
    /\ pc' = [pc EXCEPT ![p] = IF ~cb_ok THEN "cleanup"
                               ELSE IF off[p] + 1 = NChunks THEN "rename" ELSE "write"]
    /\ UNCHANGED <<active, tmpPath, destPath, fd, started, destBefore, lastRename>>

\* the stream fails or the call is cancelled (KeyboardInterrupt) before its next step
dl_interrupt(p) ==
    /\ p \in active
    /\ RestIdle
    /\ pc[p] \in {"open", "write", "rename"}
    /\ pc' = [pc EXCEPT ![p] = "cleanup"]
    /\ UNCHANGED <<active, inode, tmpPath, destPath, fd, off, started, destBefore, lastRename>>

\* tmp_dest.replace(dest): an atomic rename, FileNotFoundError when tmp is gone
dl_rename(p) ==
    /\ p \in active
    /\ RestIdle
    /\ pc[p] = "rename"
    /\ IF tmpPath = None
       THEN /\ pc' = [pc EXCEPT ![p] = "cleanup"]
            /\ UNCHANGED <<destPath, tmpPath, lastRename>>
       ELSE /\ destPath' = tmpPath
            /\ tmpPath' = None
            /\ lastRename' = p
            /\ pc' = [pc EXCEPT ![p] = "done"]
    /\ UNCHANGED <<active, inode, fd, off, started, destBefore>>

\* a handler that leaves the temp file where it is
TmpAfterCleanup_Keep == tmpPath

\* except BaseException: tmp_dest.unlink(missing_ok=True)
TmpAfterCleanup == None

\* the except clause, then the exception propagates to the caller
dl_cleanup(p) ==
    /\ p \in active
    /\ RestIdle
    /\ pc[p] = "cleanup"
    /\ tmpPath' = TmpAfterCleanup
    /\ pc' = [pc EXCEPT ![p] = "failed"]
    /\ UNCHANGED <<active, inode, destPath, fd, off, started, destBefore, lastRename>>

(* ======================================================================= *)
(* SQLBuilder (_sql.py).  SQL text is a sequence of pieces: the characters *)
(* "$" and "0".."9" one by one, everything else in longer pieces, so that   *)
(* str.replace on "$N" is modelled character by character.                 *)
(* ======================================================================= *)
\* argument values: t is the Python type; v the integer, the float in tenths,
\* the index of the string, 1/0 for True/False
IntVal(n) == [t |-> "int", v |-> n]
FloatVal(tenths) == [t |-> "float", v |-> tenths]
StrVal(i) == [t |-> "str", v |-> i]
BoolVal(b) == [t |-> "bool", v |-> b]
StrText == <<"x", "y", "1; DROP TABLE t">>

StrArgs == {StrVal(1), StrVal(2)}
LimitArgs == {IntVal(1), IntVal(10), IntVal(-1), StrVal(3)}
OffsetArgs == {IntVal(0), StrVal(3)}
ThresholdArgs == {FloatVal(8), FloatVal(9), FloatVal(20)}
\* lengths of the list given to where_in
InLens == {0, 1, 8, 9}

DigitChars == <<"0", "1", "2", "3", "4", "5", "6", "7", "8", "9">>

\* str(n) for n >= 0
RECURSIVE Digits(_)
Digits(n) == IF n < 10 THEN <<DigitChars[n + 1]>>
             ELSE Digits(n \div 10) \o <<DigitChars[(n % 10) + 1]>>

\* f"{value}" inside an f-string
Format(a) ==
    CASE a.t = "int" -> IF a.v < 0 THEN <<"-">> \o Digits(-a.v) ELSE Digits(a.v)
      [] a.t = "float" -> Digits(a.v \div 10) \o <<".">> \o Digits(a.v % 10)
      [] a.t = "str" -> <<StrText[a.v]>>
      [] a.t = "bool" -> IF a.v = 1 THEN <<"True">> ELSE <<"False">>
      [] OTHER -> <<"None">>

\* f"${idx}"
Ph(n) == <<"$">> \o Digits(n)

\* does pat occur in text at index i
MatchAt(text, pat, i) ==
    /\ i + Len(pat) - 1 <= Len(text)
    /\ \A k \in 1..Len(pat) : text[i + k - 1] = pat[k]

\* text.replace(pat, rep): every non-overlapping occurrence, left to right
RECURSIVE ReplaceFrom(_, _, _, _)
ReplaceFrom(text, pat, rep, i) ==
    IF i > Len(text) THEN <<>>
    ELSE IF MatchAt(text, pat, i) THEN rep \o ReplaceFrom(text, pat, rep, i + Len(pat))
    ELSE <<text[i]>> \o ReplaceFrom(text, pat, rep, i + 1)
Replace(text, pat, rep) == ReplaceFrom(text, pat, rep, 1)

\* sep.join(parts)
RECURSIVE Join(_, _)
Join(parts, sep) ==
    IF parts = <<>> THEN <<>>
    ELSE IF Len(parts) = 1 THEN parts[1]
    ELSE parts[1] \o sep \o Join(Tail(parts), sep)

\* the loop of where() and having(): for i in range(len(params), 0, -1):
\*     remapped = remapped.replace(f"${i}", f"${offset + i}")
RECURSIVE Remap(_, _, _)
Remap(cond, i, offset) ==
    IF i = 0 THEN cond
    ELSE Remap(Replace(cond, Ph(i), Ph(offset + i)), i - 1, offset)

\* SQLBuilder.__init__: err is the exception the last call raised; frag, m, at and
\* last are the fragment last given to where()/having(), the number of values given
\* with it, the parameter count at that call and the clause the call appended
NewBuilder == [where |-> <<>>, having |-> <<>>, params |-> <<>>,
               limit |-> <<>>, offset |-> <<>>, err |-> "none",
               frag |-> <<>>, m |-> 0, at |-> 0, last |-> <<>>]

Ok(q) == [q EXCEPT !.err = "none", !.frag = <<>>, !.m = 0, !.at = 0, !.last = <<>>]
AddWhere(q, clause, ps) ==
    [Ok(q) EXCEPT !.where = Append(@, clause), !.params = @ \o ps]

\* SQLBuilder.where
where(q, cond, ps) ==
    [AddWhere(q, Remap(cond, Len(ps), Len(q.params)), ps)
        EXCEPT !.frag = cond, !.m = Len(ps), !.at = Len(q.params),
               !.last = Remap(cond, Len(ps), Len(q.params))]

\* SQLBuilder.having
having(q, cond, ps) ==
    [Ok(q) EXCEPT !.having = Append(@, Remap(cond, Len(ps), Len(q.params))),
                  !.params = @ \o ps,
                  !.frag = cond, !.m = Len(ps), !.at = Len(q.params),
                  !.last = Remap(cond, Len(ps), Len(q.params))]

\* SQLBuilder.where_eq / where_gte / where_lte
where_cmp(q, op, v) == AddWhere(q, <<"c", op>> \o Ph(Len(q.params) + 1), <<v>>)

\* SQLBuilder.where_like
where_like(q, v) ==
    AddWhere(q, <<"LOWER(c) LIKE LOWER(">> \o Ph(Len(q.params) + 1) \o <<")">>, <<v>>)

\* SQLBuilder.where_regex
where_regex(q, v) ==
    AddWhere(q, <<"regexp_matches(c, ">> \o Ph(Len(q.params) + 1) \o <<")">>, <<v>>)

\* SQLBuilder.where_in
where_in(q, vs) ==
    IF vs = <<>> THEN AddWhere(q, <<"FALSE">>, <<>>)
    ELSE AddWhere(q,
                  <<"c IN (">>
                    \o Join([i \in 1..Len(vs) |-> Ph(Len(q.params) + i)], <<", ">>)
                    \o <<")">>,
                  vs)

\* SQLBuilder.where_fuzzy: the threshold must be a number in [0, 1]
where_fuzzy(q, v, th) ==
    IF ~(th.t \in {"int", "float", "bool"})
       \/ ~(0 <= th.v /\ th.v <= (IF th.t = "float" THEN 10 ELSE 1))
    THEN [Ok(q) EXCEPT !.err = "ValueError"]
    ELSE AddWhere(q, <<"jaro_winkler_similarity(c, ">> \o Ph(Len(q.params) + 1)
                       \o <<") > ">> \o Format(th), <<v>>)

\* SQLBuilder.where_or: conds is a sequence of <<fragment, value>>
RECURSIVE OrParts(_, _)
OrParts(conds, n) ==
    IF conds = <<>> THEN <<>>
    ELSE <<Replace(conds[1][1], Ph(1), Ph(n + 1))>> \o OrParts(Tail(conds), n + 1)
where_or(q, conds) ==
    IF conds = <<>> THEN Ok(q)
    ELSE AddWhere(q, <<"(">> \o Join(OrParts(conds, Len(q.params)), <<" OR ">>) \o <<")">>,
                  [i \in 1..Len(conds) |-> conds[i][2]])

\* isinstance(n, int) and n >= 0 (a bool is an int in Python)
IsNonNegativeInt(a) == a.t \in {"int", "bool"} /\ a.v >= 0

\* SQLBuilder.limit
limit(q, a) ==
    IF ~IsNonNegativeInt(a) THEN [Ok(q) EXCEPT !.err = "TypeError"]
    ELSE [Ok(q) EXCEPT !.limit = <<a>>]

\* SQLBuilder.offset
offset(q, a) ==
    IF ~IsNonNegativeInt(a) THEN [Ok(q) EXCEPT !.err = "TypeError"]
    ELSE [Ok(q) EXCEPT !.offset = <<a>>]

\* SQLBuilder.build: the SQL text (the parameter list is q.params)
build(q) ==
    <<"SELECT * FROM t">>
    \o (IF q.where # <<>> THEN <<" WHERE ">> \o Join(q.where, <<" AND ">>) ELSE <<>>)
    \o (IF q.having # <<>> THEN <<" HAVING ">> \o Join(q.having, <<" AND ">>) ELSE <<>>)
    \o (IF q.limit # <<>> THEN <<" LIMIT ">> \o Format(q.limit[1]) ELSE <<>>)
    \o (IF q.offset # <<>> THEN <<" OFFSET ">> \o Format(q.offset[1]) ELSE <<>>)

\* LegalityQuery._cards_by_status: the SQL text handed to Connection.execute
cards_by_status_sql(lim, ofs) ==
    <<"SELECT c.name, c.uuid FROM cards c JOIN card_legalities cl ON c.uuid = cl.uuid WHERE cl.format = ">>
    \o Ph(1) \o <<" AND cl.status = ">> \o Ph(2) \o <<" ORDER BY c.name ASC LIMIT ">>
    \o Format(lim) \o <<" OFFSET ">> \o Format(ofs)

\* CardQuery.random: the SQL text handed to the engine
random_sql(count) == <<"SELECT * FROM cards USING SAMPLE ">> \o Format(count)

\* fragments given to where() and having(), with the number of values they take
Frag1 == <<"a = ">> \o Ph(1)
Frag2 == <<"a = ">> \o Ph(1) \o <<" AND b = ">> \o Ph(2)
Frags == {<<Frag1, 1>>, <<Frag2, 2>>}
OrFrag == <<"c = ">> \o Ph(1)

\* n copies of one value
Rep(n, v) == [i \in 1..n |-> v]

\* the cache, the client and the downloader are not involved in building SQL
BuilderFrame == UNCHANGED <<worldVars, clientVars, obsVars, dlVars, pureVars>>

\* a helper call can be chained: no earlier call of the chain raised
CanCall == calls < MaxCalls /\ q1.err = "none" /\ q2.err = "none"
\* the helper returned (or raised) on both builders; the statement under
\* construction is the builder's, not a domain query's
Called == calls' = calls + 1 /\ dsql1' = <<>> /\ dsql2' = <<>> /\ BuilderFrame

new_builder ==
    /\ calls > 0
    /\ q1' = NewBuilder
    /\ q2' = NewBuilder
    /\ calls' = 0
    /\ dsql1' = <<>> /\ dsql2' = <<>>
    /\ BuilderFrame

where_eq_call(v1, v2) ==
    /\ CanCall
    /\ q1' = where_cmp(q1, " = ", v1)
    /\ q2' = where_cmp(q2, " = ", v2)
    /\ Called

where_gte_call(v1, v2) ==
    /\ CanCall
    /\ q1' = where_cmp(q1, " >= ", v1)
    /\ q2' = where_cmp(q2, " >= ", v2)
    /\ Called

where_lte_call(v1, v2) ==
    /\ CanCall
    /\ q1' = where_cmp(q1, " <= ", v1)
    /\ q2' = where_cmp(q2, " <= ", v2)
    /\ Called

where_like_call(v1, v2) ==
    /\ CanCall
    /\ q1' = where_like(q1, v1)
    /\ q2' = where_like(q2, v2)
    /\ Called

where_regex_call(v1, v2) ==
    /\ CanCall
    /\ q1' = where_regex(q1, v1)
    /\ q2' = where_regex(q2, v2)
    /\ Called

where_in_call(n, v1, v2) ==
    /\ CanCall
    /\ q1' = where_in(q1, Rep(n, v1))
    /\ q2' = where_in(q2, Rep(n, v2))
    /\ Called

where_fuzzy_call(v1, v2, t1, t2) ==
    /\ CanCall
    /\ q1' = where_fuzzy(q1, v1, t1)
    /\ q2' = where_fuzzy(q2, v2, t2)
    /\ Called

where_or_call(n, v1, v2) ==
    /\ CanCall
    /\ q1' = where_or(q1, Rep(n, <<OrFrag, v1>>))
    /\ q2' = where_or(q2, Rep(n, <<OrFrag, v2>>))
    /\ Called

where_call(f, v1, v2) ==
    /\ CanCall
    /\ q1' = where(q1, f[1], Rep(f[2], v1))
    /\ q2' = where(q2, f[1], Rep(f[2], v2))
    /\ Called

having_call(f, v1, v2) ==
    /\ CanCall
    /\ q1' = having(q1, f[1], Rep(f[2], v1))
    /\ q2' = having(q2, f[1], Rep(f[2], v2))
    /\ Called

limit_call(a1, a2) ==
    /\ CanCall
    /\ q1' = limit(q1, a1)
    /\ q2' = limit(q2, a2)
    /\ Called

offset_call(a1, a2) ==
    /\ CanCall
    /\ q1' = offset(q1, a1)
    /\ q2' = offset(q2, a2)
    /\ Called

\* None
NoneVal == [t |-> "none", v |-> 0]
\* arguments given to limit() and offset(): 0, 1, -1, a string, 1.0, True, False, None
ValidatedArgs == {IntVal(0), IntVal(1), IntVal(-1), StrVal(3), FloatVal(10),
                  BoolVal(1), BoolVal(0), NoneVal}

\* limit(n) or offset(n) on the builder; input keeps the call and the builder it
\* was made on, output the builder after it
validated_call(op, a) ==
    /\ CanCall
    /\ q1' = (IF op = "limit" THEN limit(q1, a) ELSE offset(q1, a))
    /\ q2' = (IF op = "limit" THEN limit(q2, a) ELSE offset(q2, a))
    /\ calls' = calls + 1
    /\ dsql1' = <<>> /\ dsql2' = <<>>
    /\ input' = [op |-> op, arg |-> a, before |-> q1]
    /\ output' = q1'
    /\ stage' = "validated"
    /\ UNCHANGED <<worldVars, clientVars, obsVars, dlVars>>

\* banned_in / restricted_in / suspended_in / not_legal_in(format, limit=, offset=)
cards_by_status_text(l1, o1, l2, o2) ==
    /\ dsql1' = cards_by_status_sql(l1, o1)
    /\ dsql2' = cards_by_status_sql(l2, o2)
    /\ q1' = NewBuilder /\ q2' = NewBuilder /\ calls' = 0
    /\ BuilderFrame

\* cards.random(count)
random_text(c1, c2) ==
    /\ dsql1' = random_sql(c1)
    /\ dsql2' = random_sql(c2)
    /\ q1' = NewBuilder /\ q2' = NewBuilder /\ calls' = 0
    /\ BuilderFrame

(* ======================================================================= *)
(* Price ingestion (queries/prices.py).  A JSON object is a function from  *)
(* the keys it may have to values; a value is a record whose t says what   *)
(* is at the key: Node("absent", _) (no such key), Node("junk", _) (not an  *)
(* object) or Node("dict", d) with the nested object d.                    *)
(* ======================================================================= *)
Node(t, d) == [t |-> t, d |-> d]

\* the keys of each level, in the order the document lists them
PriceKeys == [uuid |-> <<"u1">>, source |-> <<"paper", "mtgo">>, provider |-> <<"p1">>,
              category |-> <<"buylist", "retail">>, finish |-> <<"normal", "foil">>,
              date |-> <<"d1", "d2">>]
Range(seq) == {seq[i] : i \in 1..Len(seq)}

\* a price: no such date, null, the int 0, or the float 1.5 (v in tenths)
PriceVals == {[k |-> "absent", v |-> 0], [k |-> "null", v |-> 0], [k |-> "int", v |-> 0],
              [k |-> "float", v |-> 15]}
\* float(price)
ToFloat(price) == [k |-> "float", v |-> price.v]

\* the "data" object of AllPricesToday:
\* {uuid: {source: {provider: {"currency": ..., category: {finish: {date: price}}}}}}.
\* Every level is absent, junk or an object; the first key of a level takes every
\* shape below it and the other keys take one shape, which keeps the set small.
PriceDocs ==
    LET Under(keys, first, dicts, none, one) ==
            {m \in [Range(keys) -> {Node("absent", none), Node("junk", none)}
                                     \cup {Node("dict", x) : x \in dicts}] :
                \A x \in Range(keys) \ {first} :
                    m[x] \in {Node("absent", none), Node("junk", none), Node("dict", one)}}
        NoPrice == [k |-> "absent", v |-> 0]
        NoDates == [x \in Range(PriceKeys.date) |-> NoPrice]
        OneDate == [x \in Range(PriceKeys.date) |->
                      IF x = "d1" THEN [k |-> "float", v |-> 15] ELSE NoPrice]
        DateMaps == [Range(PriceKeys.date) -> PriceVals]
        FinishMaps == Under(PriceKeys.finish, "normal", DateMaps, NoDates, OneDate)
        NoFinishes == [x \in Range(PriceKeys.finish) |-> Node("absent", NoDates)]
        OneFinish == [x \in Range(PriceKeys.finish) |->
                        IF x = "normal" THEN Node("dict", OneDate) ELSE Node("absent", NoDates)]
        CategoryMaps == Under(PriceKeys.category, "retail", FinishMaps, NoFinishes, OneFinish)
        NoCategories == [x \in Range(PriceKeys.category) |-> Node("absent", NoFinishes)]
        OneCategory == [x \in Range(PriceKeys.category) |->
                          IF x = "retail" THEN Node("dict", OneFinish)
                          ELSE Node("absent", NoFinishes)]
        NoPriceData == [t |-> "absent", cur |-> "absent", d |-> NoCategories]
        PriceData == {NoPriceData, [t |-> "junk", cur |-> "absent", d |-> NoCategories]}
                     \cup [t : {"dict"}, cur : {"absent", "USD", "EUR"}, d : CategoryMaps]
        NoProviders == [x \in Range(PriceKeys.provider) |-> NoPriceData]
        OneProvider == [x \in Range(PriceKeys.provider) |->
                          [t |-> "dict", cur |-> "EUR", d |-> OneCategory]]
        ProviderMaps == [Range(PriceKeys.provider) -> PriceData]
        SourceMaps == Under(PriceKeys.source, "paper", ProviderMaps, NoProviders, OneProvider)
        NoSources == [x \in Range(PriceKeys.source) |-> Node("absent", NoProviders)]
    IN Under(PriceKeys.uuid, "u1", SourceMaps, NoSources, NoSources)

\* the concatenation of a sequence of sequences
RECURSIVE Concat(_)
Concat(ss) == IF ss = <<>> THEN <<>> ELSE Head(ss) \o Concat(Tail(ss))

\* for key in keys: the lines body[key] written one key after another
ForEach(keys, body) == Concat([i \in 1..Len(keys) |-> body[keys[i]]])

\* a price that must not be written, if "price is not None" were "if price"
Skipped_Falsy(price) == price.k \in {"absent", "null"} \/ price.v = 0
\* a price that is not written: "if price is not None"
Skipped(price) == price.k \in {"absent", "null"}

\* price_data.get("currency", "USD")
CurrencyOf(pd) == IF pd.cur = "absent" THEN "USD" ELSE pd.cur

\* _stream_flatten_prices(data, out): the lines written and the count returned
stream_flatten_prices(data) ==
    LET DateLines(u, s, p, cur, c, f, dp) ==
            ForEach(PriceKeys.date,
                    [d \in Range(PriceKeys.date) |->
                        IF Skipped(dp[d]) THEN <<>>
                        ELSE <<[uuid |-> u, source |-> s, provider |-> p, currency |-> cur,
                                category |-> c, finish |-> f, date |-> d,
                                price |-> ToFloat(dp[d])]>>])
        FinishLines(u, s, p, cur, c, fm) ==
            ForEach(PriceKeys.finish,
                    [f \in Range(PriceKeys.finish) |->
                        IF fm[f].t # "dict" THEN <<>>
                        ELSE DateLines(u, s, p, cur, c, f, fm[f].d)])
        CategoryLines(u, s, p, pd) ==
            ForEach(PriceKeys.category,
                    [c \in Range(PriceKeys.category) |->
                        IF pd.d[c].t # "dict" THEN <<>>
                        ELSE FinishLines(u, s, p, CurrencyOf(pd), c, pd.d[c].d)])
        ProviderLines(u, s, pm) ==
            ForEach(PriceKeys.provider,
                    [p \in Range(PriceKeys.provider) |->
                        IF pm[p].t # "dict" THEN <<>> ELSE CategoryLines(u, s, p, pm[p])])
        SourceLines(u, sm) ==
            ForEach(PriceKeys.source,
                    [s \in Range(PriceKeys.source) |->
                        IF sm[s].t # "dict" THEN <<>> ELSE ProviderLines(u, s, sm[s].d)])
        lines == ForEach(PriceKeys.uuid,
                         [u \in Range(PriceKeys.uuid) |->
                             IF data[u].t # "dict" THEN <<>> ELSE SourceLines(u, data[u].d)])
    IN [lines |-> lines, count |-> Len(lines)]

\* the variables a function of its arguments never touches
PureFrame == UNCHANGED <<worldVars, clientVars, obsVars, dlVars, sqlVars>>

\* a price document is parsed
load_price_doc(doc) ==
    /\ stage \in {"idle", "flattened"}
    /\ input' = doc
    /\ output' = <<>>
    /\ stage' = "ready"
    /\ PureFrame

\* _load_prices_to_duckdb calls _stream_flatten_prices(data, ndjson)
flatten_call ==
    /\ stage = "ready"
    /\ output' = stream_flatten_prices(input)
    /\ stage' = "flattened"
    /\ UNCHANGED input
    /\ PureFrame

(* ----------------------------------------------------------------------- *)
(* PriceQuery.today over the rows of prices_today.  Dates are numbered in  *)
(* calendar order; a row's price is told by its date.                      *)
(* ----------------------------------------------------------------------- *)
PriceRow(u, p, f, c, d) ==
    [uuid |-> u, provider |-> p, currency |-> IF p = "cardmarket" THEN "EUR" ELSE "USD",
     finish |-> f, category |-> c, date |-> d, price |-> 10 * d]

\* the rows a prices_today table may hold
PriceRows ==
    {PriceRow("u1", p, "normal", "retail", d) : p \in {"tcgplayer", "cardmarket"}, d \in 1..2}
    \cup {PriceRow("u1", "tcgplayer", "foil", "retail", d) : d \in 1..2}
    \cup {PriceRow("u1", "tcgplayer", "normal", "buylist", 2),
          PriceRow("u2", "tcgplayer", "normal", "retail", 3)}

\* an optional keyword argument: not given (None) or a string
NotGiven == [some |-> FALSE, v |-> ""]
Given(v) == [some |-> TRUE, v |-> v]
\* "if provider:" - given and not the empty string
Truthy(arg) == arg.some /\ arg.v # ""

\* SELECT MAX(p2.date) FROM prices_today p2 WHERE p2.uuid = $1 (0 stands for NULL)
MaxDate(table, uuid) ==
    LET dates == {r.date : r \in {x \in table : x.uuid = uuid}}
    IN IF dates = {} THEN 0 ELSE CHOOSE d \in dates : \A e \in dates : e <= d

\* PriceQuery.today(uuid, provider=, finish=, category=): the rows returned
today(table, uuid, provider, finish, category) ==
    IF table = {} THEN {}
    ELSE {r \in table :
            /\ r.uuid = uuid
            /\ r.date = MaxDate(table, uuid)
            /\ Truthy(provider) => r.provider = provider.v
            /\ Truthy(finish) => r.finish = finish.v
            /\ Truthy(category) => r.category = category.v}

\* _load_prices_to_duckdb has filled prices_today (no table when there are no rows)
load_price_table(table) ==
    /\ stage \in {"idle", "answered", "summarised"}
    /\ input' = table
    /\ output' = <<>>
    /\ stage' = "loaded"
    /\ PureFrame

\* prices.today(uuid, provider=..., finish=..., category=...)
today_call(uuid, provider, finish, category) ==
    /\ stage = "loaded"
    /\ output' = [rows |-> today(input, uuid, provider, finish, category), uuid |-> uuid,
                  provider |-> provider, finish |-> finish, category |-> category]
    /\ stage' = "answered"
    /\ UNCHANGED input
    /\ PureFrame

(* ----------------------------------------------------------------------- *)
(* SetQuery.get_financial_summary (queries/sets.py) over the cards view    *)
(* and the rows of prices_today                                            *)
(* ----------------------------------------------------------------------- *)
\* cards.setCode of the card with this uuid
SetCodeOf(uuid) == IF uuid = "u1" THEN "A25" ELSE "MH2"
\* set_code.upper()
Upper(code) == IF code = "a25" THEN "A25" ELSE code

\* SELECT MAX(p2.date) FROM prices_today p2 (0 stands for NULL)
MaxDateOfTable(table) ==
    IF table = {} THEN 0
    ELSE CHOOSE d \in {r.date : r \in table} : \A r \in table : r.date <= d

\* the rows the summary's WHERE clause keeps: cards JOIN prices_today of the set,
\* provider, currency, finish and category, at the date of the subquery
SummaryRows(table, a) ==
    {r \in table : /\ SetCodeOf(r.uuid) = Upper(a.code)
                   /\ r.provider = a.provider
                   /\ r.currency = a.currency
                   /\ r.finish = a.finish
                   /\ r.category = a.category
                   /\ r.date = MaxDateOfTable(table)}

\* SetQuery.get_financial_summary(code, provider=, currency=, finish=, category=)
\* with prices_today holding table (not registered when it has no rows): the rows
\* aggregated, and whether None or the aggregate row is returned
get_financial_summary(table, a) ==
    LET rows == IF table = {} THEN {} ELSE SummaryRows(table, a)
    IN  [rows |-> rows, args |-> a,
         ret |-> IF Cardinality({r.uuid : r \in rows}) = 0 THEN "None" ELSE "row"]

\* sdk.sets.get_financial_summary(...)
get_financial_summary_call(a) ==
    /\ stage = "loaded"
    /\ output' = get_financial_summary(input, a)
    /\ stage' = "summarised"
    /\ UNCHANGED input
    /\ PureFrame

(* ----------------------------------------------------------------------- *)
(* Connection._register_legalities_view (connection.py).  A parquet file   *)
(* is its column names and its rows in file order; a row is a function     *)
(* from the column names to values, Null being SQL NULL.                   *)
(* ----------------------------------------------------------------------- *)
Null == "<null>"

\* the card_legalities.parquet files tried: only uuid, one format, two formats, and
\* a hand-made file that already has the columns uuid, format, status
LegalitySources ==
    LET Rows(cols) == {r \in [cols -> {"u1", "u2", "Legal", "modern", Null}] :
                          /\ r["uuid"] \in {"u1", "u2"}
                          /\ \A c \in cols \ {"uuid"} : r[c] \in {"Legal", "modern", Null}}
        Parquets(cols) == [cols : {cols},
                        rows : {<<>>} \cup {<<r>> : r \in Rows(cols)}
                               \cup {<<r1, r2>> : r1 \in Rows(cols), r2 \in Rows(cols)}]
    IN  UNION {Parquets(cols) : cols \in {{"uuid"}, {"uuid", "modern"},
                                      {"uuid", "legacy", "modern"},
                                      {"uuid", "format", "status"}}}

\* the columns in schema order (DESCRIBE lists them as the file has them)
ColumnOrder == <<"uuid", "format", "legacy", "modern", "status">>

\* a filter that keeps NULL statuses
KeepsStatus_All(v) == TRUE
\* UNPIVOT ... WHERE status IS NOT NULL
KeepsStatus(v) == v # Null

\* the rows of the view card_legalities that _register_legalities_view creates
legalities_view(src) ==
    LET format_cols == src.cols \ {"uuid"}
        Cell(r, c) == IF c \in format_cols /\ KeepsStatus(r[c])
                      THEN <<[x \in {"uuid", "format", "status"} |->
                                 IF x = "uuid" THEN r["uuid"]
                                 ELSE IF x = "format" THEN c ELSE r[c]]>>
                      ELSE <<>>
        Unpivot(r) == Concat([i \in 1..Len(ColumnOrder) |-> Cell(r, ColumnOrder[i])])
    IN  IF format_cols = {} THEN src.rows
        ELSE Concat([i \in 1..Len(src.rows) |-> Unpivot(src.rows[i])])

\* a card_legalities.parquet file is in the cache
load_legalities(src) ==
    /\ stage \in {"idle", "registered"}
    /\ input' = src
    /\ output' = <<>>
    /\ stage' = "parquet"
    /\ PureFrame

\* _ensure_view("card_legalities") calls _register_legalities_view(path_str)
register_legalities_view_call ==
    /\ stage = "parquet"
    /\ output' = legalities_view(input)
    /\ stage' = "registered"
    /\ UNCHANGED input
    /\ PureFrame

(* ----------------------------------------------------------------------- *)
(* Connection._build_csv_replace (connection.py).  A column name is kept   *)
(* as its last character and what precedes it.                             *)
(* ----------------------------------------------------------------------- *)
Name(stem, last) == [stem |-> stem, last |-> last]

\* _STATIC_LIST_COLUMNS
STATIC_LIST_COLUMNS(view_name) ==
    CASE view_name = "cards" ->
        {Name("artistId", "s"), Name("attractionLight", "s"), Name("availabilit", "y"),
         Name("boosterType", "s"), Name("cardPart", "s"), Name("colorIdentit", "y"),
         Name("colorIndicato", "r"), Name("color", "s"), Name("finishe", "s"),
         Name("frameEffect", "s"), Name("keyword", "s"), Name("originalPrinting", "s"),
         Name("otherFaceId", "s"), Name("printing", "s"), Name("producedMan", "a"),
         Name("promoType", "s"), Name("rebalancedPrinting", "s"), Name("subset", "s"),
         Name("subtype", "s"), Name("supertype", "s"), Name("type", "s"),
         Name("variation", "s")}
      [] view_name = "tokens" ->
        {Name("artistId", "s"), Name("availabilit", "y"), Name("boosterType", "s"),
         Name("colorIdentit", "y"), Name("colorIndicato", "r"), Name("color", "s"),
         Name("finishe", "s"), Name("frameEffect", "s"), Name("keyword", "s"),
         Name("otherFaceId", "s"), Name("producedMan", "a"), Name("promoType", "s"),
         Name("reverseRelate", "d"), Name("subtype", "s"), Name("supertype", "s"),
         Name("type", "s")}
      [] OTHER -> {}

\* _IGNORED_COLUMNS
IGNORED_COLUMNS ==
    {Name("flavorTex", "t"), Name("foreignDat", "a"), Name("forma", "t"),
     Name("identifier", "s"), Name("leadershipSkill", "s"), Name("legalitie", "s"),
     Name("originalTex", "t"), Name("printedTex", "t"), Name("purchaseUrl", "s"),
     Name("relatedCard", "s"), Name("ruling", "s"), Name("scryfallUr", "i"),
     Name("sourceProduct", "s"), Name("statu", "s"), Name("tex", "t"),
     Name("toughnes", "s"), Name("translation", "s"), Name("uri", "s")}

\* _JSON_CAST_COLUMNS
JSON_CAST_COLUMNS ==
    {Name("foreignDat", "a"), Name("identifier", "s"), Name("leadershipSkill", "s"),
     Name("legalitie", "s"), Name("purchaseUrl", "s"), Name("relatedCard", "s"),
     Name("ruling", "s"), Name("sourceProduct", "s"), Name("translation", "s")}

\* the columns a parquet file is tried with, and the types DESCRIBE may report
\* ("-" when the file does not have the column)
SchemaColumns ==
    {Name("colorIdentit", "y"), Name("reverseRelate", "d"), Name("color", "s"),
     Name("attraction", "s"), Name("statu", "s"), Name("identifier", "s"), Name("nam", "e")}
Schemas == [SchemaColumns -> {"VARCHAR", "DOUBLE", "-"}]

\* a heuristic that never fires
EndsWithS_Never(col) == FALSE
\* col.endswith("s")
EndsWithS(col) == col.last = "s"

\* _build_csv_replace(path_str, view_name) on a file with this schema: the columns
\* replaced by string_split and the columns replaced by TRY_CAST(... AS JSON)
build_csv_replace(schema, view_name) ==
    LET has(col) == col \in DOMAIN schema /\ schema[col] # "-"
        candidates == STATIC_LIST_COLUMNS(view_name)
                      \cup {col \in DOMAIN schema :
                               /\ has(col)
                               /\ schema[col] = "VARCHAR"
                               /\ col \notin IGNORED_COLUMNS
                               /\ EndsWithS(col)}
    IN  [lists |-> {col \in candidates : has(col) /\ schema[col] = "VARCHAR"},
         json |-> {col \in JSON_CAST_COLUMNS : has(col) /\ schema[col] = "VARCHAR"}]

\* a parquet file for the view is in the cache
load_parquet(view_name, schema) ==
    /\ stage = "idle"
    /\ input' = [view |-> view_name, schema |-> schema]
    /\ output' = <<>>
    /\ stage' = "described"
    /\ PureFrame

\* _ensure_view(view_name) calls _build_csv_replace(path_str, view_name)
build_csv_replace_call ==
    /\ stage = "described"
    /\ output' = build_csv_replace(input.schema, input.view)
    /\ stage' = "built"
    /\ UNCHANGED input
    /\ PureFrame

(* ======================================================================= *)
(* Booster simulator (booster/simulator.py)                                *)
(* ======================================================================= *)
\* sheet["cards"] for sheets of up to three cards with weights 0..1, and
\* sheet.get("allowDuplicates", False)
Sheets ==
    [cards : UNION {[us -> 0..1] : us \in SUBSET {"a", "b", "c"}}, dup : BOOLEAN]

\* every order of a set
RECURSIVE Perms(_)
Perms(S) == IF S = {} THEN {<<>>}
            ELSE UNION {{<<u>> \o p : p \in Perms(S \ {u})} : u \in S}

\* random.choices(population, weights=..., k=k) over the uuids rem of a sheet: the
\* lists it may return, or the exception it raises on an empty population
\* (IndexError) and on weights whose total is zero (ValueError)
choices(cards, rem, k) ==
    LET positive == {u \in rem : cards[u] > 0}
    IN  IF rem = {} THEN {[exc |-> "IndexError", ret |-> <<>>]}
        ELSE IF positive = {} THEN {[exc |-> "ValueError", ret |-> <<>>]}
        ELSE {[exc |-> "none", ret |-> r] : r \in [1..k -> positive]}

\* the loop of _pick_from_sheet that picks k uuids without replacement
RECURSIVE pick_without_replacement(_, _, _)
pick_without_replacement(cards, rem, k) ==
    IF k = 0 THEN {[exc |-> "none", ret |-> <<>>]}
    ELSE UNION {IF c.exc # "none" THEN {c}
                ELSE {[exc |-> r.exc, ret |-> IF r.exc = "none" THEN c.ret \o r.ret ELSE <<>>] :
                        r \in pick_without_replacement(cards, rem \ {c.ret[1]}, k - 1)} :
                c \in choices(cards, rem, 1)}

\* the smaller of two numbers
Min(a, b) == IF a <= b THEN a ELSE b

\* _pick_from_sheet(sheet, count): every outcome the random module allows
pick_from_sheet(sheet, count) ==
    LET uuids == DOMAIN sheet.cards
    IN  IF sheet.dup THEN choices(sheet.cards, uuids, count)
        ELSE IF count >= Cardinality(uuids)
             THEN {[exc |-> "none", ret |-> r] : r \in Perms(uuids)}
        ELSE pick_without_replacement(sheet.cards, uuids, Min(count, Cardinality(uuids)))

\* open_pack calls _pick_from_sheet(sheet, count) and the random module decides
pick_from_sheet_call(sheet, count) ==
    /\ stage = "idle"
    /\ \E o \in pick_from_sheet(sheet, count) :
          /\ input' = [sheet |-> sheet, count |-> count]
          /\ output' = o
    /\ stage' = "picked"
    /\ PureFrame

\* booster types, and what _get_booster_config may return for a set: None
\* (data = FALSE) or a dict with these types as keys, each with the sheet "common"
BoosterTypes == {"draft", "collector"}
BoosterConfigs == {[data |-> FALSE, types |-> {}]}
                  \cup [data : {TRUE}, types : SUBSET BoosterTypes]

\* BoosterSimulator.available_types: list(config.keys()), [] without config
available_types(configs) == IF ~configs.data \/ configs.types = {} THEN {} ELSE configs.types

\* BoosterSimulator.open_pack(set_code, booster_type) with cards to pick
open_pack(configs, t) ==
    IF ~configs.data \/ configs.types = {} \/ t \notin configs.types
    THEN [exc |-> "ValueError", carried |-> IF configs.data THEN configs.types ELSE {},
          packs |-> 0]
    ELSE [exc |-> "none", carried |-> {}, packs |-> 1]

\* BoosterSimulator.open_box: [open_pack(...) for _ in range(packs)]
RECURSIVE open_box(_, _, _)
open_box(configs, t, packs) ==
    IF packs = 0 THEN [exc |-> "none", carried |-> {}, packs |-> 0]
    ELSE LET Rest(first) ==
                 IF first.exc # "none" THEN first
                 ELSE LET Sum(rest) == IF rest.exc # "none" THEN rest
                                       ELSE [rest EXCEPT !.packs = @ + 1]
                      IN  Sum(open_box(configs, t, packs - 1))
         IN  Rest(open_pack(configs, t))

\* BoosterSimulator.sheet_contents(set_code, booster_type, sheet_name)
sheet_contents(configs, t, sheet_name) ==
    IF ~configs.data \/ configs.types = {} \/ t \notin configs.types THEN "None"
    ELSE IF sheet_name # "common" THEN "None"
    ELSE "cards"

\* sdk.booster.open_pack(set_code, booster_type)
open_pack_call(configs, t) ==
    /\ stage = "idle"
    /\ input' = [op |-> "open_pack", configs |-> configs, t |-> t, packs |-> 1]
    /\ output' = open_pack(configs, t)
    /\ stage' = "opened"
    /\ PureFrame

\* sdk.booster.open_box(set_code, booster_type, packs)
open_box_call(configs, t, packs) ==
    /\ stage = "idle"
    /\ input' = [op |-> "open_box", configs |-> configs, t |-> t, packs |-> packs]
    /\ output' = open_box(configs, t, packs)
    /\ stage' = "opened"
    /\ PureFrame

\* sdk.booster.sheet_contents(set_code, booster_type, sheet_name)
sheet_contents_call(configs, t, sheet_name) ==
    /\ stage = "idle"
    /\ input' = [op |-> "sheet_contents", configs |-> configs, t |-> t, sheet |-> sheet_name]
    /\ output' = sheet_contents(configs, t, sheet_name)
    /\ stage' = "asked"
    /\ PureFrame

\* the bytes of a cached JSON file get damaged on disk (disk error, torn write)
damage(f, k) ==
    /\ fileVer[f] # None
    /\ k \notin ValidKinds
    /\ jsonKind' = [jsonKind EXCEPT ![f] = k]
    /\ UNCHANGED <<upstream, fileVer, versionTxt, clientVars, obsVars, dlVars, sqlVars, pureVars>>

(* ======================================================================= *)
(* Specifications                                                          *)
(* ======================================================================= *)
\* an empty cache directory and a client that has made no call
InitClient ==
    /\ upstream = 1
    /\ fileVer = [f \in Files |-> None]
    /\ jsonKind = [f \in JsonNames |-> "valid"]
    /\ versionTxt = None
    /\ remoteMemo = None
    /\ httpOpen = FALSE
    /\ registered = {}
    /\ dbTables = {}
    /\ closed = FALSE
    /\ handles = {}
    /\ pricesLoaded = FALSE
    /\ lastOp = Op("init", "-")
    /\ lastRes = NoRes
    /\ pre = NoPre
    /\ refreshedTo = [v \in ParquetViews |-> None]
    /\ badCache = {}
    /\ probe = NoProbe

\* the downloader and the builder at rest
DlIdle ==
    /\ active = {}
    /\ pc = <<>>
    /\ inode = <<>>
    /\ tmpPath = None
    /\ destPath = None
    /\ fd = <<>>
    /\ off = <<>>
    /\ started = <<>>
    /\ destBefore = <<>>
    /\ lastRename = None
PureIdle ==
    /\ input = <<>>
    /\ output = <<>>
    /\ stage = "idle"
SqlIdle ==
    /\ q1 = NewBuilder
    /\ q2 = NewBuilder
    /\ calls = 0
    /\ dsql1 = <<>>
    /\ dsql2 = <<>>

\* clients with the network enabled, run one after another on one cache directory
InitCache == InitClient /\ offline = FALSE /\ DlIdle /\ SqlIdle /\ PureIdle
NextCache ==
    \/ publish
    \/ \E v \in ParquetViews, n \in NetOutcomes : ensure_views_call(v, n)
    \/ \E n \in NetOutcomes : cards_get_by_uuids(FALSE, "models", n)
    \/ \E n \in NetOutcomes : cards_by_status(n)
    \/ \E n \in NetOutcomes : refresh(n)
    \/ new_client(FALSE)
SpecCache == InitCache /\ [][NextCache]_vars

\* refresh() against the lazy handles: any property may be read at any time
InitRefresh == InitClient /\ offline \in BOOLEAN /\ DlIdle /\ SqlIdle /\ PureIdle
NextRefresh ==
    \/ publish
    \/ \E n \in NetOutcomes : ensure_views_call("cards", n)
    \/ \E h \in Handles : touch(h)
    \/ \E n \in NetOutcomes : refresh(n)
    \/ \E o \in BOOLEAN : new_client(o)
SpecRefresh == InitRefresh /\ [][NextRefresh]_vars

\* calls made before and after close(), online or offline
InitClosed == InitClient /\ offline \in BOOLEAN /\ DlIdle /\ SqlIdle /\ PureIdle
NextClosed ==
    \/ \E v \in ParquetViews, n \in NetOutcomes : ensure_views_call(v, n)
    \/ sql_call
    \/ \E e \in BOOLEAN, sh \in {"models", "df"}, n \in NetOutcomes : cards_get_by_uuids(e, sh, n)
    \/ \E m \in PriceMethods, n \in NetOutcomes : price_method(m, n)
    \/ \E m \in {"available_types", "sheet_contents"}, n \in NetOutcomes : booster_method(m, n)
    \/ close
    \/ \E o \in BOOLEAN : new_client(o)
SpecClosed == InitClosed /\ [][NextClosed]_vars

\* the JSON side of the cache: load_json on files of every kind
InitJson == InitClient /\ offline \in BOOLEAN /\ DlIdle /\ SqlIdle /\ PureIdle
NextJson ==
    \/ publish
    \/ \E f \in JsonNames, n \in NetOutcomesAnyKind : load_json_call(f, n)
    \/ \E f \in JsonNames, k \in JsonKinds : damage(f, k)
    \/ \E o \in BOOLEAN : new_client(o)
SpecJson == InitJson /\ [][NextJson]_vars

\* the cache directory as _download_file may find it: the target absent or left
\* complete by an earlier download, the temp file absent or left by a killed process
InitFiles ==
    /\ \E d \in BOOLEAN, t \in BOOLEAN :
          /\ inode = (IF d THEN <<OldContent>> ELSE <<>>) \o (IF t THEN <<LeftoverTmp>> ELSE <<>>)
          /\ destPath = IF d THEN 1 ELSE None
          /\ tmpPath = IF t THEN (IF d THEN 2 ELSE 1) ELSE None
    /\ pc = [p \in Procs |-> "idle"]
    /\ fd = [p \in Procs |-> None]
    /\ off = [p \in Procs |-> 0]
    /\ started = [p \in Procs |-> 0]
    /\ destBefore = [p \in Procs |-> [exists |-> FALSE, bytes |-> <<>>]]
    /\ lastRename = None

\* the client at rest while the downloader is looked at
ClientIdle == InitClient /\ offline = FALSE

NextDownload ==
    \/ \E p \in Procs : dl_start(p)
    \/ \E p \in Procs, ok \in BOOLEAN : dl_request(p, ok)
    \/ \E p \in Procs : dl_open(p)
    \/ \E p \in Procs, cb_ok \in BOOLEAN : dl_write(p, cb_ok)
    \/ \E p \in Procs : dl_interrupt(p)
    \/ \E p \in Procs : dl_rename(p)
    \/ \E p \in Procs : dl_cleanup(p)

\* one process downloading, again and again, with nobody else in the directory
InitSolo == ClientIdle /\ SqlIdle /\ PureIdle /\ InitFiles /\ active = {1}
SpecSolo == InitSolo /\ [][NextDownload]_vars

\* two processes downloading the same file into the same directory
InitRace == ClientIdle /\ SqlIdle /\ PureIdle /\ InitFiles /\ active = Procs
SpecRace == InitRace /\ [][NextDownload]_vars


\* one cache instance after another on one cache directory, called directly
InitVersion == InitClient /\ offline \in BOOLEAN /\ DlIdle /\ SqlIdle /\ PureIdle
NextVersion ==
    \/ publish
    \/ \E n \in NetOutcomes : remote_version_call(n)
    \/ \E n \in NetOutcomes : is_stale_call(n)
    \/ \E f \in ParquetViews, n \in NetOutcomes : ensure_parquet_call(f, n)
    \/ \E f \in JsonNames, n \in NetOutcomes : ensure_json_call(f, n)
    \/ \E o \in BOOLEAN : new_client(o)
SpecVersion == InitVersion /\ [][NextVersion]_vars

\* price documents of every shape, flattened one after another
InitFlatten == ClientIdle /\ DlIdle /\ SqlIdle /\ PureIdle
NextFlatten ==
    \/ \E doc \in PriceDocs : load_price_doc(doc)
    \/ flatten_call
SpecFlatten == InitFlatten /\ [][NextFlatten]_vars

\* price tables of every content, asked for today's prices
InitToday == ClientIdle /\ DlIdle /\ SqlIdle /\ PureIdle
NextToday ==
    \/ \E table \in SUBSET PriceRows : load_price_table(table)
    \/ \E uuid \in {"u1", "u2"},
          provider \in {NotGiven, Given(""), Given("tcgplayer"), Given("cardmarket")},
          finish \in {NotGiven, Given("normal"), Given("foil")},
          category \in {NotGiven, Given("retail"), Given("buylist")} :
            today_call(uuid, provider, finish, category)
    \/ \E a \in [code : {"A25", "a25", "MH2", "XXXXX"}, provider : {"tcgplayer", "cardmarket"},
                 currency : {"USD", "EUR"}, finish : {"normal", "foil"},
                 category : {"retail", "buylist"}] : get_financial_summary_call(a)
SpecToday == InitToday /\ [][NextToday]_vars

\* legalities files of every shape, registered as the view card_legalities
InitLegalities == ClientIdle /\ DlIdle /\ SqlIdle /\ PureIdle
NextLegalities ==
    \/ \E src \in LegalitySources : load_legalities(src)
    \/ register_legalities_view_call
SpecLegalities == InitLegalities /\ [][NextLegalities]_vars

\* parquet files of every schema, for a view with a baseline, one with another
\* baseline and one without
InitReplace == ClientIdle /\ DlIdle /\ SqlIdle /\ PureIdle
NextReplace ==
    \/ \E v \in {"cards", "tokens", "sets"}, schema \in Schemas : load_parquet(v, schema)
    \/ build_csv_replace_call
SpecReplace == InitReplace /\ [][NextReplace]_vars

\* booster sheets of every content asked for every count, and sets with every
\* booster data asked for packs, boxes and sheets
InitBooster == ClientIdle /\ DlIdle /\ SqlIdle /\ PureIdle
NextBooster ==
    \/ \E sheet \in Sheets, count \in 0..MaxPick : pick_from_sheet_call(sheet, count)
    \/ \E configs \in BoosterConfigs, t \in BoosterTypes : open_pack_call(configs, t)
    \/ \E configs \in BoosterConfigs, t \in BoosterTypes, packs \in 0..MaxPacks :
          open_box_call(configs, t, packs)
    \/ \E configs \in BoosterConfigs, t \in BoosterTypes, sheet_name \in {"common", "rare"} :
          sheet_contents_call(configs, t, sheet_name)
SpecBooster == InitBooster /\ [][NextBooster]_vars

\* views registered, refreshed away and exported
InitExport == InitClient /\ offline = FALSE /\ DlIdle /\ SqlIdle /\ PureIdle
NextExport ==
    \/ publish
    \/ \E v \in {"cards", "sets"}, n \in NetOutcomes : ensure_views_call(v, n)
    \/ \E n \in NetOutcomes : refresh(n)
    \/ export_db
    \/ close
SpecExport == InitExport /\ [][NextExport]_vars

\* two builders receiving the same helper calls, the first with the value "x"
InitBuilder == ClientIdle /\ DlIdle /\ SqlIdle /\ PureIdle
NextBuilder ==
    \/ new_builder
    \/ \E v \in StrArgs : where_eq_call(StrVal(1), v)
    \/ \E v \in StrArgs : where_gte_call(StrVal(1), v)
    \/ \E v \in StrArgs : where_lte_call(StrVal(1), v)
    \/ \E v \in StrArgs : where_like_call(StrVal(1), v)
    \/ \E v \in StrArgs : where_regex_call(StrVal(1), v)
    \/ \E n \in InLens, v \in StrArgs : where_in_call(n, StrVal(1), v)
    \/ \E v \in StrArgs, t1, t2 \in ThresholdArgs : where_fuzzy_call(StrVal(1), v, t1, t2)
    \/ \E n \in 0..2, v \in StrArgs : where_or_call(n, StrVal(1), v)
    \/ \E f \in Frags, v \in StrArgs : where_call(f, StrVal(1), v)
    \/ \E f \in Frags, v \in StrArgs : having_call(f, StrVal(1), v)
    \/ \E a1, a2 \in LimitArgs : limit_call(a1, a2)
    \/ \E a1, a2 \in OffsetArgs : offset_call(a1, a2)
    \/ \E l1, l2 \in LimitArgs, o1, o2 \in OffsetArgs : cards_by_status_text(l1, o1, l2, o2)
    \/ \E c1, c2 \in LimitArgs : random_text(c1, c2)
SpecBuilder == InitBuilder /\ [][NextBuilder]_vars

\* limit() and offset() called with arguments of every kind
InitLimit == InitBuilder
NextLimit ==
    \/ new_builder
    \/ \E v \in StrArgs : where_eq_call(StrVal(1), v)
    \/ \E f \in Frags, v \in StrArgs : having_call(f, StrVal(1), v)
    \/ \E op \in {"limit", "offset"}, a \in ValidatedArgs : validated_call(op, a)
SpecLimit == InitLimit /\ [][NextLimit]_vars

\* calls awaited together on one AsyncMtgJsonTools
InitAsync ==
    /\ InitClient /\ offline = FALSE /\ DlIdle /\ SqlIdle
    /\ input = [w \in Workers |-> "-"]
    /\ output = [w \in Workers |-> "idle"]
    /\ stage = "idle"
NextAsync ==
    \/ \E w \in Workers, v \in AsyncViews : run(w, v)
    \/ \E w \in Workers : sql(w)
    \/ \E w \in Workers : ensure_view_check(w)
    \/ \E w \in Workers : ensure_view_download(w)
    \/ \E w \in Workers : ensure_view_register(w)
    \/ \E w \in Workers : execute_begin(w)
    \/ \E w \in Workers : execute_fetchall(w)
SpecAsync == InitAsync /\ [][NextAsync]_vars

\* the set summary asked for before and after prices were loaded and refreshed away
InitSummary == InitClient /\ offline \in BOOLEAN /\ DlIdle /\ SqlIdle /\ PureIdle
NextSummary ==
    \/ publish
    \/ \E n \in NetOutcomes : price_method("get", n)
    \/ \E n \in NetOutcomes : refresh(n)
    \/ \E n \in NetOutcomes : sets_get_financial_summary(n)
    \/ close
SpecSummary == InitSummary /\ [][NextSummary]_vars


(* ======================================================================= *)
(* Properties of the cache and the client                                  *)
(* ======================================================================= *)

\* C1: with the network enabled, every view in the registry is backed by a local
\* file that exists and whose bytes were downloaded at the version recorded in
\* version.txt.  (Stated in the code's favour: while no version is recorded only
\* the file's existence is required, so a violation is a real version mismatch.)
C1_RegisteredViewsAtRecordedVersion ==
    ~offline =>
        \A v \in registered \cap ParquetViews :
            /\ fileVer[v] # None
            /\ versionTxt # None => fileVer[v] = versionTxt

\* C2: after refresh() returned True because the upstream version differs from the
\* recorded one, a view that was registered before the refresh is registered again
\* only over a file downloaded at (at least) the version the refresh saw.
C2_ReRegisteredFromFreshFile ==
    \A v \in ParquetViews :
        (v \in registered /\ refreshedTo[v] # None) => fileVer[v] >= refreshedTo[v]

\* C7: refresh() returns True exactly when is_stale() is true in that call; then the
\* registry is empty and all eleven handles are unset; otherwise it returns False
\* and the registry and every handle are as they were.
C7_RefreshResetsExactlyWhenStale ==
    lastOp.op = "refresh" =>
        /\ (lastRes.ret = "True") <=> lastRes.stale
        /\ (lastRes.ret = "False") <=> ~lastRes.stale
        /\ lastRes.stale => (registered = {} /\ handles = {})
        /\ ~lastRes.stale => (registered = pre.reg /\ handles = pre.handles)

\* C7, reached: a refresh that found the cache stale with every handle set and a
\* view registered
C7_Witness ==
    /\ lastOp.op = "refresh"
    /\ lastRes.ret = "True"
    /\ pre.handles = Handles
    /\ pre.reg # {}

\* C8: on a closed client every engine call and domain-query call raises.
C8_EveryCallAfterCloseFails ==
    (closed /\ lastOp.op \notin {"close", "init"}) => lastRes.exc # "none"

\* C5: when load_json cannot parse the cached file it raises the
\* not-cached/corrupt-cache error and the file is gone from the cache directory.
C5_CorruptFileRaisedAndRemoved ==
    (lastOp.op = "load_json" /\ lastRes.parse \notin {"-", "none"}) =>
        /\ lastRes.exc = "FileNotFoundError"
        /\ fileVer[lastOp.arg] = None

\* C6: the load_json that follows one that found the file corrupt attempts a
\* download, and returns the document when the download delivers valid JSON.
C6_RetryAfterCorruptDownloads ==
    (lastOp.op = "load_json" /\ lastRes.retry) =>
        /\ lastRes.dl
        /\ lastRes.got \in ValidKinds => lastRes.ret = "dict"


(* ======================================================================= *)
(* Properties of the downloader                                            *)
(* ======================================================================= *)
AllFinished == \A p \in active : pc[p] \in {"done", "failed"} /\ started[p] > 0

\* C3: while two processes download the same file, the target is at every moment
\* absent or the complete content written by exactly one of them (or the complete
\* file that was there before), and once both have finished it is the content of
\* the process that renamed last.
C3_TargetNeverCorrupt ==
    /\ DestFile.exists =>
          DestFile.bytes \in {Complete(p) : p \in Procs} \cup {OldContent}
    /\ (AllFinished /\ lastRename # None) =>
          (DestFile.exists /\ DestFile.bytes = Complete(lastRename))

\* C4 as claimed: when an interrupted _download_file propagates its error, neither
\* '<dest>.tmp' nor dest exists.
C4_NothingLeftBehind ==
    \A p \in active : pc[p] = "failed" => (tmpPath = None /\ ~DestFile.exists)

\* C4 as amended: when an interrupted _download_file propagates its error,
\* '<dest>.tmp' does not exist and dest is exactly as it was when the call began
\* (absent if it was absent, the same complete bytes otherwise).
C4_TmpGoneTargetUntouched ==
    \A p \in active : pc[p] = "failed" => (tmpPath = None /\ DestFile = destBefore[p])

\* C4, reached: a call interrupted after it had written a chunk, with a target
\* that existed before the call
C4_Witness ==
    /\ active = {1}
    /\ pc[1] = "failed"
    /\ off[1] >= 1
    /\ destBefore[1].exists

(* ======================================================================= *)
(* Properties of the SQL builder                                           *)
(* ======================================================================= *)
IsDigit(ch) == \E d \in 1..10 : DigitChars[d] = ch
DigitVal(ch) == (CHOOSE d \in 1..10 : DigitChars[d] = ch) - 1

\* the index of the last digit of the longest run of digits that starts at i
RECURSIVE RunEnd(_, _)
RunEnd(text, i) ==
    IF i <= Len(text) /\ IsDigit(text[i]) THEN RunEnd(text, i + 1) ELSE i - 1

\* the number written by text[i..j]
RECURSIVE NumberAt(_, _, _)
NumberAt(text, i, j) ==
    IF j < i THEN 0 ELSE NumberAt(text, i, j - 1) * 10 + DigitVal(text[j])

\* the numbers N of the placeholders $N occurring in a text
PlaceholdersOf(text) ==
    { NumberAt(text, k + 1, RunEnd(text, k + 1)) :
        k \in {i \in 1..Len(text) : text[i] = "$" /\ RunEnd(text, i + 1) > i} }

\* the fragment with every $i, 1 <= i <= M, replaced by $(N+i), all at once
RECURSIVE Shifted(_, _, _, _)
Shifted(text, i, M, N) ==
    IF i > Len(text) THEN <<>>
    ELSE IF text[i] = "$" /\ RunEnd(text, i + 1) > i
    THEN LET j == RunEnd(text, i + 1)
             n == NumberAt(text, i + 1, j)
         IN (IF n \in 1..M THEN Ph(N + n) ELSE SubSeq(text, i, j))
              \o Shifted(text, j + 1, M, N)
    ELSE <<text[i]>> \o Shifted(text, i + 1, M, N)

\* C9: two runs of the same helper calls and of the same domain query that differ
\* only in the argument values (strings, limit, offset, sample count, threshold)
\* produce the same SQL text whenever neither run raised.
C9_SameTextForAllValues ==
    /\ (q1.err = "none" /\ q2.err = "none") => build(q1) = build(q2)
    /\ dsql1 = dsql2

\* C10: after any chain of helper calls the placeholders of the built SQL are exactly
\* $1..$N with N = len(params), and a where()/having() call made with N parameters
\* bound appended the fragment with each $i (1 <= i <= M) replaced by $(N+i).
C10_PlaceholdersMatchParams ==
    \A q \in {q1, q2} :
        q.err = "none" =>
            /\ PlaceholdersOf(build(q)) = 1..Len(q.params)
            /\ q.frag # <<>> => q.last = Shifted(q.frag, 1, q.m, q.at)

(* ======================================================================= *)
(* Properties of the cache's version checks                                *)
(* ======================================================================= *)
\* the remote version a call that began in state pre could retrieve
Retrievable ==
    IF pre.memo # None THEN pre.memo
    ELSE IF ~offline /\ pre.net THEN pre.up
    ELSE None

\* C11: is_stale() is true iff no local version is recorded or a remote version
\* was obtained and differs from the recorded one; it is false when a local
\* version is recorded and no remote version can be obtained (offline or CDN
\* unreachable), and true without a local version even in offline mode.
C11_StaleIffNoLocalOrRemoteDiffers ==
    lastOp.op = "is_stale" =>
        /\ (lastRes.ret = "True") <=>
              (pre.vt = None \/ (Retrievable # None /\ Retrievable # pre.vt))
        /\ (lastRes.ret = "False") <=> ~(lastRes.ret = "True")
        /\ (pre.vt # None /\ Retrievable = None) => lastRes.ret = "False"
        /\ (pre.vt = None /\ offline) => lastRes.ret = "True"

\* C11, reached: is_stale() answered False with a recorded version while the CDN
\* was unreachable
C11_Witness ==
    /\ lastOp.op = "is_stale"
    /\ pre.vt # None
    /\ ~offline /\ ~pre.net /\ pre.memo = None
    /\ lastRes.ret = "False"

\* C12: within one cache instance the Meta.json endpoint is contacted at most once
\* and every remote_version() call returns what the first call returned, also
\* when the first fetch failed and returned None.
C12_RemoteVersionMemoized ==
    /\ ~probe.refetched
    /\ probe.same

\* C13: in a client with the network enabled that had fetched the upstream version
\* and recorded it locally, a refresh() called after upstream published a different
\* version (with the CDN reachable) returns True and resets the client.
C13_RefreshSeesNewRelease ==
    (/\ lastOp.op = "refresh"
     /\ ~offline /\ pre.net
     /\ pre.memo # None /\ pre.vt = pre.memo
     /\ pre.up # pre.vt)
        => (lastRes.ret = "True" /\ registered = {} /\ handles = {})

\* the cache was stale when the call began
StaleAtCall == pre.vt = None \/ (Retrievable # None /\ Retrievable # pre.vt)

\* C14: with the network disabled ensure_parquet / ensure_json issue no network
\* request, return the path when the file exists and raise the not-cached error
\* when it is missing; with the network enabled they download whenever the file is
\* absent or the cache is stale; a returned path names a file that exists.
C14_EnsureOfflineAndOnline ==
    lastOp.op \in {"ensure_parquet", "ensure_json"} =>
        /\ offline =>
              /\ ~lastRes.req /\ ~lastRes.dl
              /\ pre.exists => (lastRes.exc = "none" /\ lastRes.ret = "path")
              /\ ~pre.exists => lastRes.exc = "FileNotFoundError"
        /\ ~offline => (lastRes.dl <=> (~pre.exists \/ StaleAtCall))
        /\ lastRes.ret = "path" => fileVer[lastOp.arg] # None

\* C14, reached: an offline call returned the path of a file of a stale cache, and
\* (in another state) an offline call failed on a missing file
C14_Witness ==
    /\ lastOp.op = "ensure_parquet"
    /\ offline
    /\ pre.exists
    /\ pre.vt = None
    /\ lastRes.ret = "path"

(* ======================================================================= *)
(* Properties of the engine and of close()                                 *)
(* ======================================================================= *)
\* what ensure_views(v) can touch
EnsureFootprint == <<fileVer, jsonKind, versionTxt, remoteMemo, httpOpen, registered, dbTables>>

\* in every state: a second ensure_views(v) changes nothing, whatever the network
\* does, and a failed ensure_views(v) leaves v out of the registry
EnsureTwiceIsOnce ==
    /\ \A v \in ParquetViews, n1, n2 \in NetOutcomes :
          LET r1 == ensure_view(Cur, v, n1) IN
          /\ r1.exc = "none" => (v \in r1.s.reg /\ ensure_view(r1.s, v, n2) = r1)
          /\ r1.exc # "none" => v \notin r1.s.reg
    /\ (lastOp.op = "ensure_views" /\ lastRes.exc # "none") => lastOp.arg \notin registered

\* C15: ensure_views(v) on a registered view does no cache lookup, no download and no
\* SQL and leaves the registry unchanged; ensure_views(v) twice leaves the state of
\* ensure_views(v) once; a failed ensure_views(v) leaves v out of the registry.
C15_EnsureViewsIdempotent ==
    /\ []EnsureTwiceIsOnce
    /\ [][(lastOp'.op = "ensure_views" /\ lastOp'.arg \in registered)
            => (UNCHANGED EnsureFootprint /\ lastRes'.exc = "none")]_vars

\* C15, reached: ensure_views(v) returned on a closed engine, which only the
\* early return for a registered view allows
C15_Witness ==
    /\ lastOp.op = "ensure_views"
    /\ lastOp.arg \in registered
    /\ closed
    /\ lastRes.exc = "none"

\* C16: a second or n-th close() raises nothing and leaves the state of the first
\* close: the database connection is closed and the cache holds no HTTP client.
C16_CloseIdempotent ==
    lastOp.op = "close" =>
        /\ lastRes.exc = "none"
        /\ closed
        /\ ~httpOpen

\* C16, reached: close() was called on a client that was already closed
C16_Witness ==
    /\ lastOp = Op("close", "again")
    /\ closed

\* C17: cards.get_by_uuids([]) returns an empty result in every result shape and
\* every client state, without touching the engine.
C17_EmptyUuidsNeverTouchEngine ==
    lastOp = Op("cards.get_by_uuids", "empty") =>
        (lastRes.exc = "none" /\ lastRes.ret = "[]")

\* C18: with a usable engine and the cards view registered, a PriceQuery read
\* method called when the price load has finished without registering prices_today
\* (price file unavailable offline, or no price points) returns its empty value
\* (None or []) and does not raise.
C18_NoPriceTableGivesEmptyValue ==
    (/\ lastOp.op = "prices"
     /\ ~closed
     /\ pricesLoaded
     /\ "cards" \in registered
     /\ "prices_today" \notin registered)
        => (lastRes.exc = "none" /\ lastRes.ret = EmptyValue(lastOp.arg))

(* ======================================================================= *)
(* Properties of price ingestion and of the price queries                 *)
(* ======================================================================= *)
\* the rows an all-in-memory flattener yields: one per path of the document that
\* leads through objects to a price that is not null
NaiveRows(data) ==
    {[uuid |-> u, source |-> s, provider |-> p,
      currency |-> IF data[u].d[s].d[p].cur = "absent" THEN "USD" ELSE data[u].d[s].d[p].cur,
      category |-> c, finish |-> f, date |-> d,
      price |-> [k |-> "float", v |-> data[u].d[s].d[p].d[c].d[f].d[d].v]] :
        <<u, s, p, c, f, d>> \in
          {x \in Range(PriceKeys.uuid) \X Range(PriceKeys.source) \X Range(PriceKeys.provider)
                   \X Range(PriceKeys.category) \X Range(PriceKeys.finish)
                   \X Range(PriceKeys.date) :
              /\ data[x[1]].t = "dict"
              /\ data[x[1]].d[x[2]].t = "dict"
              /\ data[x[1]].d[x[2]].d[x[3]].t = "dict"
              /\ data[x[1]].d[x[2]].d[x[3]].d[x[4]].t = "dict"
              /\ data[x[1]].d[x[2]].d[x[3]].d[x[4]].d[x[5]].t = "dict"
              /\ data[x[1]].d[x[2]].d[x[3]].d[x[4]].d[x[5]].d[x[6]].k \in {"int", "float"}}}

\* C19: _stream_flatten_prices writes exactly one record per (uuid, source, provider,
\* category, finish, date) whose price is not null - the rows of a naive flattener,
\* none of them twice - each with the provider's currency (USD when absent) and a
\* float price, and returns the number of lines written.
C19_StreamEqualsNaive ==
    stage = "flattened" =>
        /\ Range(output.lines) = NaiveRows(input)
        /\ Len(output.lines) = Cardinality(NaiveRows(input))
        /\ output.count = Len(output.lines)
        /\ \A i \in 1..Len(output.lines) : output.lines[i].price.k = "float"

\* C19, reached: a document with a junk level, a null price, a price 0 and a
\* provider without currency was flattened to at least two lines
C19_Witness ==
    /\ stage = "flattened"
    /\ output.count >= 2
    /\ input["u1"].t = "dict"
    /\ input["u1"].d["mtgo"].t = "junk"
    /\ input["u1"].d["paper"].t = "dict"
    /\ input["u1"].d["paper"].d["p1"].cur = "absent"
    /\ \E i \in 1..Len(output.lines) : output.lines[i].price.v = 0
    /\ \E i \in 1..Len(output.lines) : output.lines[i].currency = "USD"

\* the rows of one provider/finish/category combination of a uuid
Combination(table, uuid, r) ==
    {x \in table : /\ x.uuid = uuid
                   /\ x.provider = r.provider
                   /\ x.finish = r.finish
                   /\ x.category = r.category}

\* a row passes the filters that were given
PassesFilters(r, o) ==
    /\ o.provider.some => r.provider = o.provider.v
    /\ o.finish.some => r.finish = o.finish.v
    /\ o.category.some => r.category = o.category.v

\* C20: today(uuid, provider?, finish?, category?) returns, for every
\* provider/finish/category combination that has a row for the uuid and passes the
\* filters, that combination's row at the combination's own latest date, and no
\* row of the combination at an older date.
C20_TodayLatestPerCombination ==
    stage = "answered" =>
        \A r \in {x \in input : x.uuid = output.uuid /\ PassesFilters(x, output)} :
            (\A x \in Combination(input, output.uuid, r) : x.date <= r.date)
                <=> r \in output.rows

\* the price rows of a set's cards that match the arguments of a summary call
Matching(table, a) ==
    {r \in table : /\ SetCodeOf(r.uuid) = Upper(a.code)
                   /\ r.provider = a.provider
                   /\ r.currency = a.currency
                   /\ r.finish = a.finish
                   /\ r.category = a.category}

\* C21: with prices_today registered, get_financial_summary aggregates exactly the
\* price rows of the set's cards that match provider, currency, finish and category
\* at the latest date on which such matching rows exist, and returns None only when
\* no matching row exists for the set at all.
C21_SummaryAtLatestMatchingDate ==
    (stage = "summarised" /\ input # {}) =>
        LET m == Matching(input, output.args)
        IN  /\ output.rows = {r \in m : \A x \in m : x.date <= r.date}
            /\ output.ret = "None" <=> m = {}

\* how often x occurs in a sequence
Count(seq, x) == Cardinality({i \in 1..Len(seq) : seq[i] = x})

\* a wide source: format columns next to uuid, and one row per uuid
WideSource ==
    /\ input.cols # {"uuid"}
    /\ \A i, j \in 1..Len(input.rows) : input.rows[i]["uuid"] = input.rows[j]["uuid"] => i = j

\* C22: for a wide legalities source with one row per uuid, card_legalities holds
\* exactly one row (uuid, format, status) for each uuid and non-uuid column whose
\* value is not null, no row with a null status, and no other row.
C22_LegalitiesTall ==
    (stage = "registered" /\ WideSource) =>
        /\ \A i \in 1..Len(input.rows) : \A c \in input.cols \ {"uuid"} :
              LET r == input.rows[i]
                  row == [x \in {"uuid", "format", "status"} |->
                             IF x = "uuid" THEN r["uuid"] ELSE IF x = "format" THEN c ELSE r[c]]
              IN  Count(output, row) = IF r[c] # Null THEN 1 ELSE 0
        /\ \A k \in 1..Len(output) :
              /\ output[k]["status"] # Null
              /\ \E i \in 1..Len(input.rows) :
                    /\ output[k]["uuid"] = input.rows[i]["uuid"]
                    /\ output[k]["format"] \in input.cols \ {"uuid"}
                    /\ output[k]["status"] = input.rows[i][output[k]["format"]]

\* C22, reached: two cards, two formats, one status null: three rows in the view
C22_Witness ==
    /\ stage = "registered"
    /\ WideSource
    /\ input.cols = {"uuid", "legacy", "modern"}
    /\ Len(input.rows) = 2
    /\ \E i \in 1..2 : input.rows[i]["legacy"] = Null
    /\ Len(output) = 3

\* C29: a card_legalities source that already has the columns uuid, format, status
\* is passed through: the view returns exactly the source rows, unchanged.
C29_TallSourcePassedThrough ==
    (stage = "registered" /\ input.cols = {"uuid", "format", "status"}) =>
        /\ Len(output) = Len(input.rows)
        /\ \A i \in 1..Len(input.rows) :
              Count(output, input.rows[i]) = Count(input.rows, input.rows[i])

\* C23: _build_csv_replace turns a column into an array of strings iff the column
\* is VARCHAR, is not in the blocklist, and is in the view's baseline of known list
\* columns or has a name ending in 's'; no other column gets the list transform.
C23_ListColumnsExactly ==
    stage = "built" =>
        /\ \A col \in SchemaColumns :
              col \in output.lists <=>
                  /\ input.schema[col] = "VARCHAR"
                  /\ col \notin IGNORED_COLUMNS
                  /\ col \in STATIC_LIST_COLUMNS(input.view) \/ col.last = "s"
        /\ output.lists \subseteq {col \in SchemaColumns : input.schema[col] # "-"}

\* C23, reached: in a tokens file reverseRelated (baseline only) and attractions
\* (ending in 's' only) are split, status (blocklist) and a DOUBLE colors are not
C23_Witness ==
    /\ stage = "built"
    /\ input.view = "tokens"
    /\ input.schema[Name("statu", "s")] = "VARCHAR"
    /\ input.schema[Name("color", "s")] = "DOUBLE"
    /\ input.schema[Name("nam", "e")] = "VARCHAR"
    /\ output.lists = {Name("reverseRelate", "d"), Name("attraction", "s")}

\* C24: for every sheet and count >= 0, under every random outcome, _pick_from_sheet
\* returns only uuids of the sheet; without duplicates allowed and count < |uuids|
\* it returns exactly count uuids with no repeats; without duplicates allowed and
\* count >= |uuids| a permutation of all uuids; with duplicates allowed exactly
\* count uuids.
C24_PickFromSheet ==
    stage = "picked" =>
        LET uuids == DOMAIN input.sheet.cards
            n == Cardinality(uuids)
            ret == output.ret
            distinct == \A i, j \in 1..Len(ret) : ret[i] = ret[j] => i = j
        IN  /\ output.exc = "none"
            /\ \A i \in 1..Len(ret) : ret[i] \in uuids
            /\ (~input.sheet.dup /\ input.count < n) => (Len(ret) = input.count /\ distinct)
            /\ (~input.sheet.dup /\ input.count >= n) =>
                  (Len(ret) = n /\ distinct /\ {ret[i] : i \in 1..Len(ret)} = uuids)
            /\ input.sheet.dup => Len(ret) = input.count

\* C25: open_pack(set, t) and open_box(set, t, n), n >= 0, fail with the
\* invalid-argument error carrying available_types(set) exactly when t is not in
\* available_types(set), and sheet_contents(set, t, sheet) returns None in that
\* case; when t is available open_box returns exactly n packs.
C25_UnknownBoosterTypeRejected ==
    /\ stage = "opened" =>
          LET known == input.t \in available_types(input.configs)
          IN  /\ ~known <=> output.exc = "ValueError"
              /\ ~known => output.carried = available_types(input.configs)
              /\ known => (output.exc = "none" /\ output.packs = input.packs)
    /\ (stage = "asked" /\ input.t \notin available_types(input.configs)) => output = "None"

\* C26: after export_db(p) returns, the file at p holds exactly one table per name
\* that was in the view registry, each with the rows of the engine's view; the
\* registry is unchanged and the export database is detached, so that a further
\* export_db on the open client succeeds.
C26_ExportHoldsRegisteredViews ==
    lastOp.op = "export_db" =>
        /\ ~closed => lastRes.exc = "none"
        /\ lastRes.exc = "none" =>
              /\ DOMAIN output.tables = pre.reg
              /\ \A v \in pre.reg : output.tables[v] = fileVer[v]
              /\ registered = pre.reg
              /\ ~output.attached

\* C26, reached: a second export, after a refresh emptied the registry while the
\* engine kept its views and cards was registered again
C26_Witness ==
    /\ lastOp = Op("export_db", "again")
    /\ lastRes.exc = "none"
    /\ pre.reg = {"cards"}
    /\ dbTables = {"cards", "sets"}
    /\ DOMAIN output.tables = {"cards"}

\* C27: limit(n) and offset(n) succeed exactly when n is an integer >= 0; with any
\* other argument (a negative integer, a string, a float, a boolean, None) the call
\* raises TypeError and leaves limit, offset, clauses and parameters as they were.
C27_LimitOffsetValidated ==
    stage = "validated" =>
        LET a == input.arg
            valid == a.t = "int" /\ a.v >= 0
        IN  /\ output.err = "none" <=> valid
            /\ ~valid =>
                  /\ output.err = "TypeError"
                  /\ output.limit = input.before.limit
                  /\ output.offset = input.before.offset
                  /\ output.where = input.before.where
                  /\ output.having = input.before.having
                  /\ output.params = input.before.params

\* C28: of the calls awaited together on one AsyncMtgJsonTools, no two have a
\* statement on the shared connection at the same time, and no two worker threads
\* are at once in the download or registration of the same view.
C28_AsyncCallsSerialised ==
    \A w1, w2 \in Workers :
        w1 # w2 =>
            /\ ~(output[w1] = "fetch" /\ output[w2] = "fetch")
            /\ ~(/\ output[w1] \in {"download", "register"}
                 /\ output[w2] \in {"download", "register"}
                 /\ input[w1] = input[w2])

\* C30, as stated: get_financial_summary never ingests prices and never adds to the
\* registry; whenever prices_today is not in the registry it returns None, and it
\* returns a summary only where prices_today had been registered before.
C30_SummaryLeavesRegistry ==
    lastOp = Op("sets", "get_financial_summary") =>
        /\ registered = pre.reg
        /\ ("prices_today" \in dbTables) = pre.exists
        /\ "prices_today" \notin pre.reg => lastRes = Returned("None")
        /\ lastRes.ret = "rows" => "prices_today" \in pre.reg

\* C30, amended: get_financial_summary never ingests prices and adds nothing but
\* cards to the registry; where prices_today is not in the registry it returns None
\* unless ensuring the cards view raised, and it returns a summary only where
\* prices_today had been registered before.
C30_SummaryNeverLoadsPrices ==
    lastOp = Op("sets", "get_financial_summary") =>
        /\ registered \ {"cards"} = pre.reg \ {"cards"}
        /\ pre.reg \subseteq registered
        /\ ("prices_today" \in dbTables) = pre.exists
        /\ "prices_today" \notin pre.reg =>
              \/ lastRes = Returned("None")
              \/ /\ lastRes.exc # "none"
                 /\ "cards" \notin registered
        /\ lastRes.ret = "rows" => "prices_today" \in pre.reg

\* C30, reached: None is returned although the price file is in the cache and the
\* prices_today table is still in the database, a refresh having emptied the registry
C30_Witness ==
    /\ lastOp = Op("sets", "get_financial_summary")
    /\ lastRes = Returned("None")
    /\ "prices_today" \notin pre.reg
    /\ "prices_today" \in dbTables
    /\ fileVer["all_prices_today"] # None
    /\ registered = {"cards"}


====
